---------------------------- MODULE Spec2Model ----------------------------
(***************************************************************************)
(* The real-time engine of the drum-pad sampler: MainProcessor (the        *)
(* AudioWorklet processor), its command inlet (port.onmessage), its event  *)
(* outlet (port.postMessage) and its render step process().                *)
(*                                                                         *)
(* Numbers.  Sample values are integers.  A gain is a velocity counted in  *)
(* halves (velocity 0.5 is gain 1, velocity 1.0 is gain 2), so a bus value *)
(* is counted in halves too.  The two countdowns of the clock are rational *)
(* numbers, kept exactly as reduced fractions <<n, d>> with d > 0.  The    *)
(* click of the metronome and the test tone are sines: a bus frame keeps   *)
(* them as the terms they are computed from.  A read outside a             *)
(* Float32Array gives undefined, and undefined * gain is NaN: a bus frame  *)
(* carries a nan flag.  A bus is a Float32Array: what is stored in a frame *)
(* is rounded to the 24 significant bits of a float32.                     *)
(***************************************************************************)
EXTENDS Integers, Sequences, FiniteSets, TLC

VARIABLES
    sampleRate,            \* the global sampleRate of the worklet scope
    port,                  \* commands posted to the worklet and not yet delivered
    isTonePlaying, phase,
    sampleBuffers, activeVoices, chokeGroups,
    isMetronomeEnabled, bpm, metronomePhase, currentBeat, clickFreq, clickAmp,
    nextClickCountdown, samplesPerBeat, ticksUntilNextClock,
    outputs,               \* the buses the last step handed to the host (process() only)
    posted,                \* the events posted by the last step
    last,                  \* history: the last step taken and the state it started from
    lim,                   \* the limits and histories this behaviour is explored with
    sent, applied,         \* history: commands posted / delivered so far
    clk,                   \* history of the clock, in frames
    outlet,                \* events posted by the worklet and not yet delivered
    beatPulse,             \* control side: the tempo display carries 'beat-pulse'
    isInitialized,         \* control side: the start-up handler has run to its end
    samplesStore,          \* IndexedDB: the object store 'samples' (outlives the page)
    transactions,          \* IndexedDB: the transactions created and not yet done
    padsLoaded,            \* control side: the pads whose button carries 'loaded'
    startups,              \* history of the pages: start-ups and what was stored
    control                \* control side: the start-ups in flight and what they made

engine == <<isTonePlaying, phase, sampleBuffers, activeVoices, chokeGroups,
            isMetronomeEnabled, bpm, metronomePhase, currentBeat, clickFreq,
            clickAmp, nextClickCountdown, samplesPerBeat, ticksUntilNextClock>>

page == <<isInitialized, samplesStore, transactions, padsLoaded, startups, control>>

vars == <<sampleRate, port, engine, outputs, posted, last, lim, sent, applied, clk,
          outlet, beatPulse, page>>

-----------------------------------------------------------------------------
(* Bounds of the model *)

MaxVoices == 3       \* voices alive or about to be created
MaxQueue == 2        \* ordering: commands in flight in the port
MaxSent == 3         \* ordering: commands posted in a behaviour
OrderFrames == 16    \* ordering: frames rendered in a behaviour
MaxFrames == 40      \* clock: frames rendered in a behaviour
MaxClockCmds == 2    \* clock: commands posted in a behaviour
MaxTempoCmds == 3    \* tempo with voices: commands posted in a behaviour
MaxPadCmds == 4      \* pads: commands posted in a behaviour
MaxPadFrames == 8    \* pads: frames rendered in a behaviour
MaxMixCmds == 5      \* mixdown: commands posted in a behaviour
MaxMixFrames == 4    \* mixdown: frames rendered in a behaviour
MaxEventCmds == 3    \* event outlet: commands posted in a behaviour
MaxEventFrames == 24 \* event outlet: frames rendered in a behaviour
MaxStartups == 1     \* persistence: times the page is loaded again
MaxStoreCmds == 3    \* persistence: commands posted by a page
MaxTransactions == 2 \* persistence: transactions pending at a time
MaxJournal == 3      \* persistence: transactions created in a behaviour
MaxMidiCmds == 2     \* MIDI: commands posted in a behaviour
MaxLifeFrames == 4   \* voices and every kind of command: frames rendered
MaxClicks == 3       \* start-up: clicks on the start overlay
MaxBootCmds == 3     \* start-up: commands posted in a behaviour
MaxKitCmds == 4      \* kits: commands posted in a behaviour
MaxBpmCmds == 2      \* tempo of the page: commands posted in a behaviour
MaxTicks == 49       \* tempo of the page: timing clocks received
MaxChanges == 1      \* tempo of the page: changes of the time between clocks
MaxRecorders == 3    \* microphone: MediaRecorders created in a behaviour
MaxStarting == 2     \* microphone: calls of startMicRecording awaiting getUserMedia
MaxTaps == 2         \* tempo of the page: time of the last tap, in gaps of 2500 ms

(* Host parameters and inputs *)

NumVis == 16         \* visualization outputs 1..16 of the worklet node

Pad1 == <<"p", "a", "d", "1">>
Pad2 == <<"p", "a", "d", "2">>
Pad16 == <<"p", "a", "d", "1", "6">>
\* Identifiers that name none of the 16 pads.
Pad0 == <<"p", "a", "d", "0">>
Pad17 == <<"p", "a", "d", "1", "7">>
PadX == <<"p", "a", "d", "x">>

\* Float32Array[]: one sequence of samples per channel, all of one length.
BufOnes == <<  <<1, 1, 1, 1>>  >>
BufLong == << <<2, 3, 4, 5, 6, 7>> >>
BufStereo == << <<2, 3>>, <<5, 7>> >>
\* One frame at full scale and one frame of 2^-24 of it.
BufFull == << <<16777216>> >>
BufLsb == << <<1>> >>

-----------------------------------------------------------------------------
(* Rational numbers *)

RECURSIVE Gcd(_, _)
Gcd(a, b) == IF b = 0 THEN a ELSE Gcd(b, a % b)

Abs(x) == IF x < 0 THEN -x ELSE x

\* The fraction n/d, d > 0, reduced.
Frac(n, d) == LET g == Gcd(Abs(n), d) IN <<n \div g, d \div g>>

FracDec(q) == <<q[1] - q[2], q[2]>>          \* q - 1
FracLeqZero(q) == q[1] <= 0                  \* q <= 0
FracDiv(q, k) == Frac(q[1], q[2] * k)        \* q / k, k > 0
FracIsInt(q) == q[2] = 1
\* The least integer >= q.
FracCeil(q) == IF q[1] % q[2] = 0 THEN q[1] \div q[2] ELSE (q[1] \div q[2]) + 1

-----------------------------------------------------------------------------
(* Pad identifiers: strings, kept as sequences of characters *)

Digits == <<"0", "1", "2", "3", "4", "5", "6", "7", "8", "9">>
IsDigit(c) == \E k \in 1..10 : Digits[k] = c
DigitVal(c) == (CHOOSE k \in 1..10 : Digits[k] = c) - 1

Tail3(s) == SubSeq(s, 4, Len(s))

\* id.replace('pad', ''): the first occurrence of "pad" is removed.
RECURSIVE ReplacePad(_)
ReplacePad(s) ==
    IF Len(s) < 3 THEN s
    ELSE IF SubSeq(s, 1, 3) = <<"p", "a", "d">> THEN Tail3(s)
    ELSE <<Head(s)>> \o ReplacePad(Tail(s))

\* The digits a string starts with, as a number (acc is the number so far).
RECURSIVE LeadingDigits(_, _)
LeadingDigits(s, acc) ==
    IF s = <<>> \/ ~IsDigit(Head(s)) THEN acc
    ELSE LeadingDigits(Tail(s), 10 * acc + DigitVal(Head(s)))

\* parseInt(s, 10): NaN unless s starts (after blanks and a sign) with a digit.
RECURSIVE ParseInt(_)
ParseInt(s) ==
    IF s = <<>> THEN [nan |-> TRUE, val |-> 0]
    ELSE IF Head(s) = " " THEN ParseInt(Tail(s))
    ELSE LET signed == Head(s) \in {"-", "+"}
             t == IF signed THEN Tail(s) ELSE s
         IN  IF t = <<>> \/ ~IsDigit(Head(t)) THEN [nan |-> TRUE, val |-> 0]
             ELSE [nan |-> FALSE,
                   val |-> IF Head(s) = "-" THEN 0 - LeadingDigits(t, 0)
                           ELSE LeadingDigits(t, 0)]

\* The slot, were the pad number itself taken for it.
SlotOfPadNumber(id) ==
    LET padNum == ParseInt(ReplacePad(id))
    IN  IF ~padNum.nan /\ padNum.val >= 1 /\ padNum.val <= NumVis
        THEN padNum.val ELSE 0

\* The slot, were the pad number not checked against 1..16.
SlotOfUnchecked(id) ==
    LET padNum == ParseInt(ReplacePad(id))
    IN  IF ~padNum.nan THEN padNum.val - 1 ELSE 0

\* The visualization slot of a pad: pad1 -> 0, ..., pad16 -> 15, else 0.
SlotOf(id) ==
    LET padNum == ParseInt(ReplacePad(id))
    IN  IF ~padNum.nan /\ padNum.val >= 1 /\ padNum.val <= NumVis
        THEN padNum.val - 1 ELSE 0

-----------------------------------------------------------------------------
(* Commands and events *)

LoadSample(id, buffers) == [id |-> id, buffers |-> buffers, type |-> "LOAD_SAMPLE"]
PlaySample(id, velocity) == [id |-> id, type |-> "PLAY_SAMPLE", velocity |-> velocity]
SetBpm(b) == [type |-> "SET_BPM", payload |-> b]
ToggleMetronome(e) == [type |-> "TOGGLE_METRONOME", payload |-> e]
SetChokeGroup(id, group) == [id |-> id, type |-> "SET_CHOKE_GROUP", group |-> group]
ToggleTone(e) == [type |-> "TOGGLE_TONE", payload |-> e]

\* An event with the frame of the block it was posted at (-1 outside process()).
Event(type, payload, frame) == [type |-> type, payload |-> payload, frame |-> frame]

-----------------------------------------------------------------------------
(* MainProcessor *)

Has(map, id) == id \in DOMAIN map
MapSet(map, id, v) == (id :> v) @@ map

\* updateTiming, were the quotient cut to whole samples.
UpdateTimingInWholeSamples(rate, b) == Frac((rate * 60) \div b, 1)

\* updateTiming(): samples per beat (quarter note).
UpdateTiming(rate, b) == Frac(rate * 60, b)

\* Choke, were the group of the voice not compared.
ChokeEveryVoice(voices, group) ==
    [k \in DOMAIN voices |-> [voices[k] EXCEPT !.isPlaying = FALSE]]

\* Choke, were the loop left at the first voice it stops.
ChokeFirstOnly(voices, group) ==
    LET hit(k) == /\ voices[k].isPlaying
                  /\ Has(chokeGroups, voices[k].sampleId)
                  /\ chokeGroups[voices[k].sampleId] = group
    IN  [k \in DOMAIN voices |->
            IF hit(k) /\ \A j \in 1..(k - 1) : ~hit(j)
            THEN [voices[k] EXCEPT !.isPlaying = FALSE]
            ELSE voices[k]]

\* The choke loop of triggerVoice: every playing voice of the group stops.
Choke(voices, group) ==
    [k \in DOMAIN voices |->
        IF voices[k].isPlaying
           /\ Has(chokeGroups, voices[k].sampleId)
           /\ chokeGroups[voices[k].sampleId] = group
        THEN [voices[k] EXCEPT !.isPlaying = FALSE]
        ELSE voices[k]]

\* The pushed voice, were the gain clamped to 1.0 (two halves).
NewVoiceClamped(id, velocity) ==
    [sampleId |-> id, bufferIndex |-> 0, isPlaying |-> TRUE,
     gain |-> IF velocity > 2 THEN 2 ELSE velocity,
     visSlot |-> SlotOf(id), started |-> sampleBuffers[id]]

\* The voice pushed by triggerVoice.  (started is history, not a field of
\* SampleVoice: the buffers the pad held when the voice was triggered.)
NewVoice(id, velocity) ==
    [sampleId |-> id, bufferIndex |-> 0, isPlaying |-> TRUE,
     gain |-> velocity, visSlot |-> SlotOf(id), started |-> sampleBuffers[id]]

\* triggerVoice, were the choke run before the sample is looked up.
TriggerVoiceChokingFirst(id, velocity) ==
    LET choked == IF Has(chokeGroups, id)
                  THEN Choke(activeVoices, chokeGroups[id])
                  ELSE activeVoices
    IN  IF Has(sampleBuffers, id) THEN Append(choked, NewVoice(id, velocity))
        ELSE choked

\* triggerVoice(id, velocity): the voices it leaves.
TriggerVoice(id, velocity) ==
    IF Has(sampleBuffers, id)
    THEN LET choked == IF Has(chokeGroups, id)
                       THEN Choke(activeVoices, chokeGroups[id])
                       ELSE activeVoices
         IN  Append(choked, NewVoice(id, velocity))
    ELSE activeVoices

-----------------------------------------------------------------------------
(* Buses *)

\* One frame of a bus: the sum of the voices' samples (v, or NaN), and the
\* click and tone terms added to it.
Silence == [v |-> 0, nan |-> FALSE, click |-> <<>>, tone |-> <<>>]

\* sampleValue * gain, where sampleValue = channel[index] (0-based) and a read
\* outside the array is undefined.
OutSample(channel, index, gain) ==
    IF index + 1 \in DOMAIN channel
    THEN [v |-> channel[index + 1] * gain, nan |-> FALSE]
    ELSE [v |-> 0, nan |-> TRUE]

\* A float32 has 24 significant bits: the integers below 2^24 are all floats.
F32Integers == 16777216

\* The gap between the floats around a >= 0.
RECURSIVE UlpOf(_)
UlpOf(a) == IF a < F32Integers THEN 1 ELSE 2 * UlpOf(a \div 2)

\* The float32 nearest to the integer x, ties to the even significand: what a
\* store into a Float32Array keeps of x.
RoundF32(x) ==
    IF Abs(x) < F32Integers THEN x
    ELSE LET a == Abs(x)
             u == UlpOf(a)
             q == a \div u
             r == a % u
             m == IF 2 * r > u \/ (2 * r = u /\ q % 2 = 1) THEN q + 1 ELSE q
         IN  IF x < 0 THEN 0 - m * u ELSE m * u

\* frame += outSample, were the sum kept exactly.
AddSampleExactly(frame, s) ==
    [frame EXCEPT !.v = IF frame.nan \/ s.nan THEN 0 ELSE @ + s.v,
                  !.nan = @ \/ s.nan]

\* frame += outSample
AddSample(frame, s) ==
    [frame EXCEPT !.v = IF frame.nan \/ s.nan THEN 0 ELSE RoundF32(@ + s.v),
                  !.nan = @ \/ s.nan]

\* A channel of an output buffer as the host hands it to process(): n frames
\* holding whatever they held.  There are a stereo mix and 16 mono
\* visualization outputs.
Residue == [v |-> 1, nan |-> FALSE, click |-> <<>>, tone |-> <<>>]
HostChannel(n) == [i \in 1..n |-> Residue]

\* output[ch].fill(0)
Fill0(channel) == [i \in DOMAIN channel |-> Silence]

\* The clearing, were only the mix cleared.
ClearMixOnly(n) ==
    [mix |-> [ch \in 1..2 |-> Fill0(HostChannel(n))],
     vis |-> [k \in 1..NumVis |-> HostChannel(n)]]

\* 0. Clear All Outputs (Mix + 16 Vis Channels)
ClearOutputs(n) ==
    [mix |-> [ch \in 1..2 |-> Fill0(HostChannel(n))],
     vis |-> [k \in 1..NumVis |-> Fill0(HostChannel(n))]]

Min(a, b) == IF a < b THEN a ELSE b

-----------------------------------------------------------------------------
(* process(): 1. the clock *)

\* triggerMetronome, were the index advanced before BEAT is posted.
TriggerMetronomePostingAfter(c, i) ==
    [c EXCEPT !.metronomePhase = 3000,
              !.ev = Append(@, Event("BEAT", (c.currentBeat + 1) % 4, i)),
              !.clickFreq = IF c.currentBeat = 0 THEN 25 ELSE 15,
              !.clickAmp = IF c.currentBeat = 0 THEN 50 ELSE 30,
              !.currentBeat = (c.currentBeat + 1) % 4]

\* triggerMetronome() at frame i, on the clock record c.
TriggerMetronome(c, i) ==
    [c EXCEPT !.metronomePhase = 3000,
              !.ev = Append(@, Event("BEAT", c.currentBeat, i)),
              !.clickFreq = IF c.currentBeat = 0 THEN 25 ELSE 15,   \* 0.25 / 0.15
              !.clickAmp = IF c.currentBeat = 0 THEN 50 ELSE 30,    \* 0.5 / 0.3
              !.currentBeat = (c.currentBeat + 1) % 4]

\* Metronome (Quarter Note) Logic of one frame.
BeatStep(c, i) ==
    LET d == [c EXCEPT !.nextClickCountdown = FracDec(@)]
    IN  IF FracLeqZero(d.nextClickCountdown)
        THEN [TriggerMetronome(d, i) EXCEPT !.nextClickCountdown = samplesPerBeat]
        ELSE d

\* MIDI Clock (24 PPQ) Logic of one frame.
TickStep(c, i) ==
    LET d == [c EXCEPT !.ticksUntilNextClock = FracDec(@)]
    IN  IF FracLeqZero(d.ticksUntilNextClock)
        THEN [d EXCEPT !.ev = Append(@, Event("CLOCK_TICK", 0, i)),
                       !.ticksUntilNextClock = FracDiv(samplesPerBeat, 24)]
        ELSE d

\* The clock loop over the frames i .. n-1 of a block.
RECURSIVE ClockLoop(_, _, _)
ClockLoop(c, i, n) ==
    IF i >= n THEN c ELSE ClockLoop(TickStep(BeatStep(c, i), i), i + 1, n)

ClockNow ==
    [nextClickCountdown |-> nextClickCountdown,
     ticksUntilNextClock |-> ticksUntilNextClock,
     currentBeat |-> currentBeat, metronomePhase |-> metronomePhase,
     clickFreq |-> clickFreq, clickAmp |-> clickAmp, ev |-> <<>>]

-----------------------------------------------------------------------------
(* process(): 2. the click and 3. the test tone, into the mix only *)

AddTerm(mix, i, field, term) ==
    [ch \in DOMAIN mix |-> [mix[ch] EXCEPT ![i + 1] = [@ EXCEPT ![field] = term]]]

\* The click loop from frame i: r = [mix, metronomePhase].
RECURSIVE ClickLoop(_, _, _, _, _)
ClickLoop(r, i, n, freq, amp) ==
    IF i >= n \/ ~(r.metronomePhase > 0) THEN r
    ELSE ClickLoop([mix |-> AddTerm(r.mix, i, "click", <<r.metronomePhase, freq, amp>>),
                    metronomePhase |-> r.metronomePhase - 15],
                   i + 1, n, freq, amp)

\* The click, were it rendered whatever isMetronomeEnabled says.
MetronomeSoundAlways(mix, c, n) ==
    IF c.metronomePhase > 0
    THEN ClickLoop([mix |-> mix, metronomePhase |-> c.metronomePhase], 0, n,
                   c.clickFreq, c.clickAmp)
    ELSE [mix |-> mix, metronomePhase |-> c.metronomePhase]

MetronomeSound(mix, c, n) ==
    IF isMetronomeEnabled /\ c.metronomePhase > 0
    THEN ClickLoop([mix |-> mix, metronomePhase |-> c.metronomePhase], 0, n,
                   c.clickFreq, c.clickAmp)
    ELSE [mix |-> mix, metronomePhase |-> c.metronomePhase]

\* phase += frequency / sampleRate; if (phase > 1) phase -= 1   (frequency = 440)
PhaseStep(ph) ==
    LET q == Frac(ph[1] * sampleRate + 440 * ph[2], ph[2] * sampleRate)
    IN  IF q[1] > q[2] THEN <<q[1] - q[2], q[2]>> ELSE q

\* The tone loop from frame i: r = [mix, phase].
RECURSIVE ToneLoop(_, _, _)
ToneLoop(r, i, n) ==
    IF i >= n THEN r
    ELSE ToneLoop([mix |-> AddTerm(r.mix, i, "tone", <<r.phase>>),
                   phase |-> PhaseStep(r.phase)], i + 1, n)

Oscillator(mix, n) ==
    IF isTonePlaying THEN ToneLoop([mix |-> mix, phase |-> phase], 0, n)
    ELSE [mix |-> mix, phase |-> phase]

-----------------------------------------------------------------------------
(* process(): 4. the sampler *)

\* The channel read, were every master channel fed from channel 0.
InputChannelIndexFirst(ch, buffer) == 0

\* Math.min(ch, buffer.length - 1)
InputChannelIndex(ch, buffer) == Min(ch, Len(buffer) - 1)

\* The end test, were a cursor at the length still inside the sample.
RanOffPastTheEnd(bufferIndex, buffer) == bufferIndex > Len(buffer[1])

\* voice.bufferIndex >= buffer[0].length
RanOff(bufferIndex, buffer) == bufferIndex >= Len(buffer[1])

\* One frame of a voice: r = [voice, out]; the voice is playing.
VoiceFrame(r, buffer, i) ==
    LET voice == r.voice
        mix == [ch \in 1..2 |->
                  [r.out.mix[ch] EXCEPT ![i + 1] =
                      AddSample(@, OutSample(buffer[InputChannelIndex(ch - 1, buffer) + 1],
                                             voice.bufferIndex, voice.gain))]]
        slot == voice.visSlot + 1
        vis == IF slot \in DOMAIN r.out.vis
               THEN [r.out.vis EXCEPT ![slot][i + 1] =
                        AddSample(@, OutSample(buffer[1], voice.bufferIndex, voice.gain))]
               ELSE r.out.vis
        next == voice.bufferIndex + 1
    IN  [voice |-> [voice EXCEPT !.bufferIndex = next,
                                 !.isPlaying = ~RanOff(next, buffer)],
         out |-> [mix |-> mix, vis |-> vis]]

\* The frame loop of a voice from frame i.
RECURSIVE VoiceLoop(_, _, _, _)
VoiceLoop(r, buffer, i, n) ==
    IF i >= n \/ ~r.voice.isPlaying THEN r
    ELSE VoiceLoop(VoiceFrame(r, buffer, i), buffer, i + 1, n)

\* The buffer a voice is rendered from: looked up by its sampleId in every block.
BufferOf(voice) == sampleBuffers[voice.sampleId]

\* The loop, were the voice before a removed voice skipped.
RECURSIVE SamplerSkippingAfterSplice(_, _, _)
SamplerSkippingAfterSplice(r, v, n) ==
    IF v < 1 THEN r
    ELSE LET voice == r.voices[v]
             without == SubSeq(r.voices, 1, v - 1) \o SubSeq(r.voices, v + 1, Len(r.voices))
         IN  IF ~Has(sampleBuffers, voice.sampleId)
             THEN SamplerSkippingAfterSplice([r EXCEPT !.voices = without], v - 2, n)
             ELSE LET d == VoiceLoop([voice |-> voice, out |-> r.out], BufferOf(voice), 0, n)
                  IN  IF ~d.voice.isPlaying
                      THEN SamplerSkippingAfterSplice([voices |-> without, out |-> d.out],
                                                      v - 2, n)
                      ELSE SamplerSkippingAfterSplice(
                               [voices |-> [r.voices EXCEPT ![v] = d.voice], out |-> d.out],
                               v - 1, n)

\* The loop over the voices v, v-1, ..., 1: r = [voices, out].
RECURSIVE Sampler(_, _, _)
Sampler(r, v, n) ==
    IF v < 1 THEN r
    ELSE LET voice == r.voices[v]
             without == SubSeq(r.voices, 1, v - 1) \o SubSeq(r.voices, v + 1, Len(r.voices))
         IN  IF ~Has(sampleBuffers, voice.sampleId)
             THEN Sampler([r EXCEPT !.voices = without], v - 1, n)
             ELSE LET d == VoiceLoop([voice |-> voice, out |-> r.out], BufferOf(voice), 0, n)
                  IN  Sampler([voices |-> IF ~d.voice.isPlaying THEN without
                                          ELSE [r.voices EXCEPT ![v] = d.voice],
                               out |-> d.out],
                              v - 1, n)

\* process() after the clock loop left c, the click m and the tone t.
RenderVoices(c, m, t, n) ==
    [clock |-> c, metronomePhase |-> m.metronomePhase, phase |-> t.phase,
     sampler |-> Sampler([voices |-> activeVoices,
                          out |-> [mix |-> t.mix, vis |-> ClearOutputs(n).vis]],
                         Len(activeVoices), n)]

RenderTone(c, m, n) == RenderVoices(c, m, Oscillator(m.mix, n), n)

RenderClick(c, n) == RenderTone(c, MetronomeSound(ClearOutputs(n).mix, c, n), n)

\* process() on a block of n frames: everything it leaves.
Render(n) == RenderClick(ClockLoop(ClockNow, 0, n), n)

-----------------------------------------------------------------------------
(* Histories *)

\* The fields of the processor.
EngineState ==
    [isTonePlaying |-> isTonePlaying, phase |-> phase,
     sampleBuffers |-> sampleBuffers, activeVoices |-> activeVoices,
     chokeGroups |-> chokeGroups, isMetronomeEnabled |-> isMetronomeEnabled,
     bpm |-> bpm, metronomePhase |-> metronomePhase, currentBeat |-> currentBeat,
     clickFreq |-> clickFreq, clickAmp |-> clickAmp,
     nextClickCountdown |-> nextClickCountdown, samplesPerBeat |-> samplesPerBeat,
     ticksUntilNextClock |-> ticksUntilNextClock]

NoClk ==
    [now |-> 0, beats |-> <<>>, ticks |-> <<>>, toggled |-> FALSE,
     due |-> [beat |-> -1, tick |-> -1],
     epoch |-> [at |-> 0, beat |-> 0, idx |-> 0, kind |-> "new"], bar |-> <<>>]

\* The frame of the block, from 0, at which a countdown standing at q fires: it
\* is decremented once a frame and fires at the frame that leaves it <= 0.
FiresAt(q) == IF FracCeil(q) >= 1 THEN FracCeil(q) - 1 ELSE 0

\* The frames (counted from the first block) of the events of one type.
RECURSIVE FramesOf(_, _, _)
FramesOf(ev, type, base) ==
    IF ev = <<>> THEN <<>>
    ELSE (IF Head(ev).type = type THEN <<base + Head(ev).frame>> ELSE <<>>)
         \o FramesOf(Tail(ev), type, base)

\* The BEAT events of a block, with their frames counted from the first block.
RECURSIVE BeatsOf(_, _)
BeatsOf(ev, base) ==
    IF ev = <<>> THEN <<>>
    ELSE (IF Head(ev).type = "BEAT"
          THEN <<[frame |-> base + Head(ev).frame, payload |-> Head(ev).payload]>>
          ELSE <<>>)
         \o BeatsOf(Tail(ev), base)

\* lim.queue: commands in flight at a time; lim.sent: commands posted in all
\* (0: any number, and no history of them); lim.frames: frames rendered in all
\* (0: any number, and no count of them); lim.clock: the clock history is kept;
\* lim.outlet: the events are kept in flight until the control side takes them.
Limits(queue, nsent, frames, clock) ==
    [queue |-> queue, sent |-> nsent, frames |-> frames, clock |-> clock,
     outlet |-> FALSE]

LimitsWithOutlet(queue, nsent, frames) ==
    [Limits(queue, nsent, frames, FALSE) EXCEPT !.outlet = TRUE]

\* this.port.postMessage(event), for the events ev of a step: they are queued
\* for the control side, and the worklet goes on.
PostMessage(ev) == IF lim.outlet THEN outlet \o ev ELSE outlet

ClkAfterBlock(ev, n) ==
    [now |-> IF lim.frames > 0 THEN clk.now + n ELSE clk.now,
     beats |-> IF lim.clock THEN clk.beats \o FramesOf(ev, "BEAT", clk.now)
               ELSE clk.beats,
     ticks |-> IF lim.clock THEN clk.ticks \o FramesOf(ev, "CLOCK_TICK", clk.now)
               ELSE clk.ticks,
     toggled |-> clk.toggled, due |-> clk.due, epoch |-> clk.epoch,
     bar |-> IF lim.clock THEN clk.bar \o BeatsOf(ev, clk.now) ELSE clk.bar]

ClkAfterMessage(msg) ==
    IF ~lim.clock THEN clk
    ELSE IF msg.type = "SET_BPM"
         THEN [NoClk EXCEPT !.now = clk.now,
                            !.due = [beat |-> clk.now + FiresAt(nextClickCountdown),
                                     tick |-> clk.now + FiresAt(ticksUntilNextClock)]]
    ELSE IF msg.type = "TOGGLE_METRONOME" THEN [clk EXCEPT !.toggled = TRUE]
    ELSE clk

\* clk.epoch and clk.bar: a SET_BPM or a TOGGLE_METRONOME with true opens an
\* epoch: the frame it was applied at, the frame the beat countdown it leaves
\* fires at and the beat index it leaves; clk.bar is the BEAT events since.
EpochAfterMessage(msg, e, c) ==
    IF ~lim.clock THEN c
    ELSE IF msg.type = "SET_BPM" \/ (msg.type = "TOGGLE_METRONOME" /\ msg.payload)
    THEN [c EXCEPT !.epoch = [at |-> clk.now,
                              beat |-> clk.now + FiresAt(e.nextClickCountdown),
                              idx |-> e.currentBeat, kind |-> msg.type],
                   !.bar = <<>>]
    ELSE [c EXCEPT !.epoch = clk.epoch, !.bar = clk.bar]

-----------------------------------------------------------------------------
(* State after construction *)

NoOutputs == ClearOutputs(0)

\* The worklet after construction, nothing posted to it yet.
Worklet ==
    /\ port = <<>>
    /\ isTonePlaying = FALSE
    /\ phase = <<0, 1>>
    /\ sampleBuffers = << >>
    /\ activeVoices = << >>
    /\ chokeGroups = << >>
    /\ isMetronomeEnabled = FALSE
    /\ bpm = 120
    /\ metronomePhase = 0
    /\ currentBeat = 0
    /\ clickFreq = 10      \* 0.1
    /\ clickAmp = 30       \* 0.3
    /\ nextClickCountdown = <<0, 1>>
    /\ samplesPerBeat = UpdateTiming(sampleRate, 120)
    /\ ticksUntilNextClock = <<0, 1>>
    /\ outputs = NoOutputs
    /\ posted = << >>
    /\ last = [op |-> "new"]
    /\ sent = << >>
    /\ applied = << >>
    /\ clk = NoClk
    /\ outlet = << >>
    /\ beatPulse = FALSE

\* startups.n: the start-ups after the first; startups.found: what the last
\* found stored; startups.journal: the transactions done, in their order;
\* startups.created: the transactions created.
NoStartups == [n |-> 0, found |-> << >>, journal |-> << >>, created |-> 0]

\* control.startUps: where each call of the click handler of the start overlay
\* that got past its guard is waiting; control.runs: the calls that got past
\* the guard; control.contexts, control.engines: the AudioContexts and the
\* AudioWorkletNodes created; control.overlapped: a click came while a call
\* was waiting; control.failed: a call ended in its catch; control.active: the
\* pads whose button was given 'active' and whose spring was triggered;
\* control.kit: the pads and files the running loadKitFiles has still to load,
\* the first being the one in hand; control.waiting: the transactions to be
\* done before the saveSample it awaits resolves (0: it awaits none);
\* control.currentBpm: the tempo of the page; control.tapTimes: the times of
\* the last taps (Date.now(), ms); control.ticked: lastTickTime > 0;
\* control.tickCount, control.tickIntervals: the fields of MidiManager;
\* control.period, control.changes: the time between the last two timing
\* clocks and the number of times it has changed; control.mic: the
\* microphone recording of the AudioManager.
\* mic.mediaRecorder: 0 for null, else the MediaRecorder, numbered as created;
\* mic.recordedChunks: the recorders whose data was pushed; mic.starting: the
\* calls of startMicRecording awaiting getUserMedia; mic.recording: the
\* recorders in the state 'recording'; mic.stopping: what the recorder that
\* was stopped has still to come to: "data", "stop", "decode", or "" for none.
NoMic == [isRecording |-> FALSE, mediaRecorder |-> 0, recordedChunks |-> << >>,
          starting |-> 0, created |-> 0, recording |-> {}, stopping |-> ""]

NoControl == [startUps |-> << >>, runs |-> 0, contexts |-> 0, engines |-> 0,
              overlapped |-> FALSE, failed |-> FALSE, active |-> {},
              kit |-> << >>, waiting |-> 0,
              currentBpm |-> 120, tapTimes |-> << >>,
              ticked |-> FALSE, tickCount |-> 0, tickIntervals |-> << >>,
              period |-> 0, changes |-> 0, mic |-> NoMic]

\* The control side after one start-up that ran to its end.
Started == [NoControl EXCEPT !.runs = 1, !.contexts = 1, !.engines = 1]

\* The worklet after construction, on a page that has started up with nothing
\* stored.
Constructed ==
    /\ Worklet
    /\ isInitialized = TRUE
    /\ samplesStore = << >>
    /\ transactions = << >>
    /\ padsLoaded = {}
    /\ startups = NoStartups
    /\ control = Started

-----------------------------------------------------------------------------
(* Steps *)

LiveVoices == Len(activeVoices) + Len(SelectSeq(port, LAMBDA m : m.type = "PLAY_SAMPLE"))

\* The control side posts a command: port.postMessage(cmd).
Send(cmd) ==
    /\ Len(port) < lim.queue
    /\ cmd.type = "PLAY_SAMPLE" => LiveVoices < MaxVoices
    /\ lim.sent > 0 => Len(sent) < lim.sent
    /\ port' = Append(port, cmd)
    /\ sent' = IF lim.sent > 0 THEN Append(sent, cmd) ELSE sent
    /\ last' = [op |-> "send", msg |-> cmd]
    /\ outputs' = NoOutputs
    /\ posted' = << >>
    /\ UNCHANGED <<sampleRate, engine, lim, applied, clk, outlet, beatPulse, page>>

\* The message delivered next, were the newest delivered first.
NewestMessage == port[Len(port)]

\* The message delivered next: the port is a queue.
NextMessage == Head(port)

\* The branches of port.onmessage, on the fields e of the processor.
OnToggleTone(e, msg) == [e EXCEPT !.isTonePlaying = msg.payload]

\* LOAD_SAMPLE, were the voices of the pad dropped with its old sample.
OnLoadSampleDroppingVoices(e, msg) ==
    [e EXCEPT !.sampleBuffers = MapSet(@, msg.id, msg.buffers),
              !.activeVoices = SelectSeq(@, LAMBDA x : x.sampleId # msg.id)]

OnLoadSample(e, msg) ==
    [e EXCEPT !.sampleBuffers = MapSet(@, msg.id, msg.buffers)]

OnPlaySample(e, msg) ==
    [e EXCEPT !.activeVoices = TriggerVoice(msg.id, msg.velocity)]

\* SET_BPM, were the countdowns in flight restarted at the new tempo.
OnSetBpmRestartingCountdowns(e, msg) ==
    [e EXCEPT !.bpm = msg.payload,
              !.samplesPerBeat = UpdateTiming(sampleRate, msg.payload),
              !.nextClickCountdown = UpdateTiming(sampleRate, msg.payload),
              !.ticksUntilNextClock = FracDiv(UpdateTiming(sampleRate, msg.payload), 24)]

OnSetBpm(e, msg) ==
    [e EXCEPT !.bpm = msg.payload,
              !.samplesPerBeat = UpdateTiming(sampleRate, msg.payload)]

\* TOGGLE_METRONOME, were the bar restarted only when the metronome was off.
OnToggleMetronomeWhenOff(e, msg) ==
    [e EXCEPT !.isMetronomeEnabled = msg.payload,
              !.nextClickCountdown =
                  IF msg.payload /\ ~e.isMetronomeEnabled THEN <<0, 1>> ELSE @,
              !.currentBeat = IF msg.payload /\ ~e.isMetronomeEnabled THEN 0 ELSE @]

\* TOGGLE_METRONOME, were the 24 PPQ countdown restarted with the bar.
OnToggleMetronomeRestartingTicks(e, msg) ==
    [e EXCEPT !.isMetronomeEnabled = msg.payload,
              !.nextClickCountdown = IF msg.payload THEN <<0, 1>> ELSE @,
              !.currentBeat = IF msg.payload THEN 0 ELSE @,
              !.ticksUntilNextClock = IF msg.payload THEN <<0, 1>> ELSE @]

OnToggleMetronome(e, msg) ==
    [e EXCEPT !.isMetronomeEnabled = msg.payload,
              !.nextClickCountdown = IF msg.payload THEN <<0, 1>> ELSE @,  \* Start immediately
              !.currentBeat = IF msg.payload THEN 0 ELSE @]                \* Reset bar

\* SET_CHOKE_GROUP, were group 0 the way to take a pad out of its group.
OnSetChokeGroupZeroClears(e, msg) ==
    [e EXCEPT !.chokeGroups =
        IF msg.group = 0 THEN [p \in DOMAIN @ \ {msg.id} |-> @[p]]
        ELSE MapSet(@, msg.id, msg.group)]

\* SET_CHOKE_GROUP, were the playing voices of the pad stopped.
OnSetChokeGroupStoppingThePad(e, msg) ==
    [e EXCEPT !.chokeGroups = MapSet(@, msg.id, msg.group),
              !.activeVoices = [k \in DOMAIN @ |->
                                  IF @[k].sampleId = msg.id
                                  THEN [@[k] EXCEPT !.isPlaying = FALSE] ELSE @[k]]]

OnSetChokeGroup(e, msg) ==
    [e EXCEPT !.chokeGroups = MapSet(@, msg.id, msg.group)]

\* The fields port.onmessage leaves on the message msg.
After(msg) ==
    CASE msg.type = "TOGGLE_TONE" -> OnToggleTone(EngineState, msg)
      [] msg.type = "LOAD_SAMPLE" -> OnLoadSample(EngineState, msg)
      [] msg.type = "PLAY_SAMPLE" -> OnPlaySample(EngineState, msg)
      [] msg.type = "SET_BPM" -> OnSetBpm(EngineState, msg)
      [] msg.type = "TOGGLE_METRONOME" -> OnToggleMetronome(EngineState, msg)
      [] msg.type = "SET_CHOKE_GROUP" -> OnSetChokeGroup(EngineState, msg)
      [] OTHER -> EngineState

\* The LOG events port.onmessage posts on the message msg.
Logged(msg) ==
    CASE msg.type = "LOAD_SAMPLE" ->
            <<Event("LOG", <<"Loaded", msg.id, Len(msg.buffers), Len(msg.buffers[1])>>, -1)>>
      [] msg.type = "SET_BPM" -> <<Event("LOG", <<"BPM set to", msg.payload>>, -1)>>
      [] msg.type = "SET_CHOKE_GROUP" ->
            <<Event("LOG", <<"Choke Group", msg.group, msg.id>>, -1)>>
      [] OTHER -> << >>

\* port.onmessage on the message msg.
Handle(msg) ==
    /\ \E e \in {After(msg)} :
          /\ isTonePlaying' = e.isTonePlaying
          /\ phase' = e.phase
          /\ sampleBuffers' = e.sampleBuffers
          /\ activeVoices' = e.activeVoices
          /\ chokeGroups' = e.chokeGroups
          /\ isMetronomeEnabled' = e.isMetronomeEnabled
          /\ bpm' = e.bpm
          /\ metronomePhase' = e.metronomePhase
          /\ currentBeat' = e.currentBeat
          /\ clickFreq' = e.clickFreq
          /\ clickAmp' = e.clickAmp
          /\ nextClickCountdown' = e.nextClickCountdown
          /\ samplesPerBeat' = e.samplesPerBeat
          /\ ticksUntilNextClock' = e.ticksUntilNextClock
    /\ posted' = Logged(msg)

\* A posted command is delivered: the worklet runs port.onmessage, between
\* two process() calls.
OnMessage ==
    /\ port # << >>
    /\ Handle(NextMessage)
    /\ port' = Tail(port)
    /\ applied' = IF lim.sent > 0 THEN Append(applied, NextMessage) ELSE applied
    /\ clk' = EpochAfterMessage(NextMessage, After(NextMessage), ClkAfterMessage(NextMessage))
    /\ last' = [op |-> "message", msg |-> NextMessage, pre |-> EngineState]
    /\ outputs' = NoOutputs
    /\ outlet' = PostMessage(Logged(NextMessage))
    /\ UNCHANGED <<sampleRate, lim, sent, beatPulse, page>>

\* The host calls process() with output buffers of n frames.
Process(n) ==
    /\ lim.frames > 0 => clk.now + n <= lim.frames
    /\ \E r \in {Render(n)} :
           /\ nextClickCountdown' = r.clock.nextClickCountdown
           /\ ticksUntilNextClock' = r.clock.ticksUntilNextClock
           /\ currentBeat' = r.clock.currentBeat
           /\ clickFreq' = r.clock.clickFreq
           /\ clickAmp' = r.clock.clickAmp
           /\ metronomePhase' = r.metronomePhase
           /\ phase' = r.phase
           /\ activeVoices' = r.sampler.voices
           /\ outputs' = r.sampler.out
           /\ posted' = r.clock.ev
           /\ clk' = ClkAfterBlock(r.clock.ev, n)
           /\ outlet' = PostMessage(r.clock.ev)
    /\ last' = [op |-> "process", n |-> n, voices |-> activeVoices]
    /\ UNCHANGED <<sampleRate, port, isTonePlaying, sampleBuffers, chokeGroups,
                   isMetronomeEnabled, bpm, samplesPerBeat, lim, sent, applied,
                   beatPulse, page>>

-----------------------------------------------------------------------------
(* The sampler: loading, triggering, choking and rendering voices.  One      *)
(* command is in flight at a time: every sequence of deliveries and blocks  *)
(* is reached that way too.                                                 *)

VoiceRates == {2}
VoiceBlocks == {4, 8}
VoiceCmds ==
    {LoadSample(Pad1, BufOnes), LoadSample(Pad1, BufLong),
     LoadSample(Pad2, BufStereo)}
    \cup {PlaySample(Pad1, 1), PlaySample(Pad2, 2)}
    \cup {SetChokeGroup(Pad1, 1), SetChokeGroup(Pad2, 1), SetChokeGroup(Pad2, 0)}

Init ==
    /\ sampleRate \in VoiceRates
    /\ lim = Limits(1, 0, 0, FALSE)
    /\ Constructed

Next ==
    \/ \E cmd \in VoiceCmds : Send(cmd)
    \/ OnMessage
    \/ \E n \in VoiceBlocks : Process(n)

Spec == Init /\ [][Next]_vars

-----------------------------------------------------------------------------
(* The command inlet: every kind of command, several in flight *)

OrderRates == {48}
OrderBlocks == {8}
OrderCmds ==
    {LoadSample(Pad1, BufOnes), LoadSample(Pad1, BufLong), PlaySample(Pad1, 1),
     SetBpm(90), SetBpm(60), ToggleMetronome(TRUE), ToggleMetronome(FALSE),
     SetChokeGroup(Pad1, 1), SetChokeGroup(Pad1, 0), ToggleTone(TRUE), ToggleTone(FALSE)}

InitOrder ==
    /\ sampleRate \in OrderRates
    /\ lim = Limits(MaxQueue, MaxSent, OrderFrames, FALSE)
    /\ Constructed

NextOrder ==
    \/ \E cmd \in OrderCmds : Send(cmd)
    \/ OnMessage
    \/ \E n \in OrderBlocks : Process(n)

SpecOrder == InitOrder /\ [][NextOrder]_vars

Applied(type) == last.op = "message" /\ last.msg.type = type
Rendered == last.op = "process"

\* What the commands cmds, applied in this order to a new processor, leave in
\* the fields that only commands write.
RECURSIVE Settings(_, _)
Settings(cmds, acc) ==
    IF cmds = << >> THEN acc
    ELSE LET m == Head(cmds)
         IN  Settings(Tail(cmds),
               CASE m.type = "LOAD_SAMPLE" ->
                      [acc EXCEPT !.sampleBuffers = MapSet(@, m.id, m.buffers)]
                 [] m.type = "SET_CHOKE_GROUP" ->
                      [acc EXCEPT !.chokeGroups = MapSet(@, m.id, m.group)]
                 [] m.type = "SET_BPM" ->
                      [acc EXCEPT !.bpm = m.payload,
                                  !.samplesPerBeat = Frac(sampleRate * 60, m.payload)]
                 [] m.type = "TOGGLE_METRONOME" ->
                      [acc EXCEPT !.isMetronomeEnabled = m.payload]
                 [] m.type = "TOGGLE_TONE" ->
                      [acc EXCEPT !.isTonePlaying = m.payload]
                 [] OTHER -> acc)

NewSettings ==
    [sampleBuffers |-> << >>, chokeGroups |-> << >>, bpm |-> 120,
     samplesPerBeat |-> Frac(sampleRate * 60, 120), isMetronomeEnabled |-> FALSE,
     isTonePlaying |-> FALSE]

SettingsNow ==
    [sampleBuffers |-> sampleBuffers, chokeGroups |-> chokeGroups, bpm |-> bpm,
     samplesPerBeat |-> samplesPerBeat, isMetronomeEnabled |-> isMetronomeEnabled,
     isTonePlaying |-> isTonePlaying]

\* C1: the commands are applied in the order they were posted, one whole command
\* at a time and between blocks: in every state, and so at the start of every
\* block, the commands applied so far are a prefix of the commands posted, the
\* rest is in flight in that order, and the processor holds what that prefix
\* leaves.
C1_CommandsAppliedInOrder ==
    /\ applied \o port = sent
    /\ SettingsNow = Settings(applied, NewSettings)

\* A block has been rendered while two commands were applied and a third one,
\* posted after them, was still in flight.
C1_Witness ==
    /\ Rendered /\ Len(applied) = 2 /\ Len(port) = 1
    /\ applied[1].type = "SET_BPM" /\ applied[2].type = "SET_BPM"
    /\ applied[1] # applied[2]

-----------------------------------------------------------------------------
(* The clock: tempo and metronome commands, with the frames of the events *)

ClockRates == {5, 48, 72, 48000}
ClockBlocks == {4}
ClockCmds == {SetBpm(90), ToggleMetronome(TRUE), ToggleMetronome(FALSE)}

InitClock ==
    /\ sampleRate \in ClockRates
    /\ lim = Limits(1, MaxClockCmds, MaxFrames, TRUE)
    /\ Constructed

NextClock ==
    \/ \E cmd \in ClockCmds : Send(cmd)
    \/ OnMessage
    \/ \E n \in ClockBlocks : Process(n)

SpecClock == InitClock /\ [][NextClock]_vars

\* clk.beats and clk.ticks are the frames, counted from the first block, of the
\* BEAT and CLOCK_TICK events posted since the tempo was last set; clk.toggled
\* says that a TOGGLE_METRONOME was applied since.

\* |x - k * q| <= m, for integers x, k, m
Within(x, k, q, m) == Abs(x * q[2] - k * q[1]) <= m * q[2]

BlockLength == CHOOSE n \in ClockBlocks : \A m \in ClockBlocks : m <= n

Ticks(ev) == SelectSeq(ev, LAMBDA x : x.type = "CLOCK_TICK")

\* C7: at constant tempo and without TOGGLE_METRONOME, beat k is within one
\* block length of k * samplesPerBeat frames after beat 0, and consecutive beats
\* are samplesPerBeat frames apart when that is a whole number.  (Stated for
\* the behaviours in which no command was posted at all.)
C7_BeatsKeepTheTempo ==
    (~clk.toggled /\ sent = << >>) =>
        \A k \in 1..Len(clk.beats) :
            /\ Within(clk.beats[k] - clk.beats[1], k - 1, samplesPerBeat, BlockLength)
            /\ (k > 1 /\ FracIsInt(samplesPerBeat)) =>
                  clk.beats[k] - clk.beats[k - 1] = samplesPerBeat[1]

\* What process() does: consecutive beats are samplesPerBeat frames apart,
\* rounded up to a whole frame.
C7_BeatsRoundedUp ==
    ~clk.toggled =>
        \A k \in 2..Len(clk.beats) :
            clk.beats[k] - clk.beats[k - 1] = FracCeil(samplesPerBeat)

\* C8: samplesPerBeat is sampleRate * 60 / bpm (24000 at 48000 Hz and 120 bpm),
\* the pulse countdown is reloaded with samplesPerBeat / 24 (1000 there), and
\* the first block posts BEAT 0 and a pulse at its first frame.
C8_TimingFromTempo ==
    /\ samplesPerBeat[1] * bpm = sampleRate * 60 * samplesPerBeat[2]
    /\ Gcd(samplesPerBeat[1], samplesPerBeat[2]) = 1
    /\ (sampleRate = 48000 /\ bpm = 120) =>
          samplesPerBeat = <<24000, 1>> /\ FracDiv(samplesPerBeat, 24) = <<1000, 1>>
    /\ (Rendered /\ Ticks(posted) # << >>) =>
          LET t == Ticks(posted)
          IN  ticksUntilNextClock[1] * samplesPerBeat[2] * 24 =
                 (samplesPerBeat[1]
                    - (last.n - 1 - t[Len(t)].frame) * samplesPerBeat[2] * 24)
                 * ticksUntilNextClock[2]
    /\ (Rendered /\ clk.now = last.n) =>
          /\ Len(posted) >= 2
          /\ posted[1] = Event("BEAT", 0, 0)
          /\ posted[2] = Event("CLOCK_TICK", 0, 0)

\* The first block has been rendered at 48000 Hz and 120 bpm.
C8_Witness ==
    /\ Rendered /\ clk.now = last.n /\ sampleRate = 48000 /\ bpm = 120
    /\ ticksUntilNextClock = <<1000 - last.n + 1, 1>>

C10_PulsesPerBeat ==
    samplesPerBeat[1] >= 24 * samplesPerBeat[2] =>
        \A k \in 2..Len(clk.beats) :
            Cardinality({j \in 1..Len(clk.ticks) :
                            clk.beats[k - 1] <= clk.ticks[j] /\ clk.ticks[j] < clk.beats[k]})
              = 24

\* The same where no command was ever posted: both countdowns run from the
\* first block on at 120 bpm.
C10_WithoutCommands == sent = << >> => C10_PulsesPerBeat

\* The same where samplesPerBeat / 24 is a whole number of frames and the
\* metronome was not toggled.
C10_WholePulses ==
    (~clk.toggled /\ FracIsInt(FracDiv(samplesPerBeat, 24))) => C10_PulsesPerBeat

\* The beats of the epoch: the epoch was opened by the last SET_BPM or
\* TOGGLE_METRONOME(true), or by the constructor.
BarGap == FracCeil(samplesPerBeat)
BarLength ==
    IF clk.now > clk.epoch.beat THEN ((clk.now - 1 - clk.epoch.beat) \div BarGap) + 1 ELSE 0

\* C12: after TOGGLE_METRONOME(true), whatever the flag was, the first frame of
\* the next block posts BEAT 0, and the beats after it carry 1, 2, 3, 0, ...
C12_EnableStartsABar ==
    /\ (Applied("TOGGLE_METRONOME") /\ last.msg.payload) =>
          nextClickCountdown = <<0, 1>> /\ currentBeat = 0
    /\ (clk.epoch.kind = "TOGGLE_METRONOME" /\ clk.now > clk.epoch.at) =>
          /\ clk.bar # << >>
          /\ clk.bar[1] = [frame |-> clk.epoch.at, payload |-> 0]
          /\ \A k \in 1..Len(clk.bar) : clk.bar[k].payload = (k - 1) % 4
    /\ (Rendered /\ clk.epoch.kind = "TOGGLE_METRONOME"
            /\ clk.now = clk.epoch.at + last.n) =>
          posted # << >> /\ posted[1] = Event("BEAT", 0, 0)

\* The metronome was enabled inside a bar while it was enabled already, and
\* five beats have come since: 0, 1, 2, 3, 0.
C12_Witness ==
    /\ clk.epoch.kind = "TOGGLE_METRONOME" /\ Len(clk.bar) >= 5
    /\ Len(applied) = 2 /\ applied[1] = ToggleMetronome(TRUE)
    /\ applied[2] = ToggleMetronome(TRUE)
    /\ clk.epoch.at > 0 /\ clk.epoch.at % BarGap # 0
    /\ clk.bar[5].payload = 0 /\ clk.bar[4].payload = 3

NoClick(bus) == \A i \in DOMAIN bus : bus[i].click = << >>

\* C13: with the flag false no click is added to the master bus; the BEAT
\* events (frames and indices) and the pulses are what the countdowns give,
\* whatever the flag is and whenever it was cleared; TOGGLE_METRONOME(false)
\* writes the flag and nothing else.
C13_DisableOnlyMutes ==
    /\ (Applied("TOGGLE_METRONOME") /\ ~last.msg.payload) =>
          EngineState = [last.pre EXCEPT !.isMetronomeEnabled = FALSE]
    /\ (Rendered /\ ~isMetronomeEnabled) =>
          \A ch \in DOMAIN outputs.mix : NoClick(outputs.mix[ch])
    /\ Len(clk.bar) = BarLength
    /\ \A k \in 1..Len(clk.bar) :
          clk.bar[k] = [frame |-> clk.epoch.beat + (k - 1) * BarGap,
                        payload |-> (clk.epoch.idx + k - 1) % 4]
    /\ \A k \in 2..Len(clk.ticks) :
          clk.ticks[k] - clk.ticks[k - 1] = FracCeil(FracDiv(samplesPerBeat, 24))

\* The metronome was enabled and then disabled; a block rendered since has
\* posted a BEAT, the envelope of the click is up, and the block has no click.
C13_Witness ==
    /\ Rendered /\ ~isMetronomeEnabled /\ metronomePhase > 0
    /\ applied = <<ToggleMetronome(TRUE), ToggleMetronome(FALSE)>>
    /\ clk.epoch.kind = "TOGGLE_METRONOME" /\ Len(clk.bar) >= 3
    /\ \E k \in 1..Len(posted) : posted[k].type = "BEAT"

\* C14: the beat index is in 0..3; a BEAT carries the index current before it
\* and the index then advances modulo 4, so the payloads run 0, 1, 2, 3, 0, ...
\* through SET_BPM and TOGGLE_METRONOME(false); TOGGLE_METRONOME(true)
\* restarts them at 0.
C14_BeatIndexCycle ==
    /\ currentBeat \in 0..3
    /\ clk.epoch.kind \in {"new", "TOGGLE_METRONOME"} => clk.epoch.idx = 0
    /\ \A k \in 1..Len(clk.bar) : clk.bar[k].payload = (clk.epoch.idx + k - 1) % 4
    /\ currentBeat = (clk.epoch.idx + Len(clk.bar)) % 4
    /\ (last.op = "message"
            /\ ~(last.msg.type = "TOGGLE_METRONOME" /\ last.msg.payload)) =>
          currentBeat = last.pre.currentBeat
    /\ Rendered =>
          \A k \in 1..Len(posted) :
              posted[k].type = "BEAT" => posted[k].payload \in 0..3

\* The tempo was set when the index was 2, and the beats since carried 2, 3, 0.
C14_Witness ==
    /\ clk.epoch.kind = "SET_BPM" /\ clk.epoch.idx = 2 /\ Len(clk.bar) = 3
    /\ clk.bar[3].payload = 0 /\ currentBeat = 1

-----------------------------------------------------------------------------
(* Tempo and metronome commands while voices play *)

TempoRates == {5}
TempoBlocks == {4}
TempoCmds ==
    {LoadSample(Pad1, BufLong), PlaySample(Pad1, 1), SetChokeGroup(Pad1, 1),
     SetBpm(90), ToggleMetronome(TRUE), ToggleMetronome(FALSE)}

InitTempo ==
    /\ sampleRate \in TempoRates
    /\ lim = Limits(1, MaxTempoCmds, MaxFrames, TRUE)
    /\ Constructed

NextTempo ==
    \/ \E cmd \in TempoCmds : Send(cmd)
    \/ OnMessage
    \/ \E n \in TempoBlocks : Process(n)

SpecTempo == InitTempo /\ [][NextTempo]_vars

\* C11: SET_BPM writes bpm and samplesPerBeat and nothing else; the next beat
\* (unless TOGGLE_METRONOME came in between) and the next pulse come at the
\* frames the countdowns in flight had fixed, and the beats and pulses after
\* them are the new samplesPerBeat (and a 24th of it) apart, in whole frames.
C11_SetBpmKeepsCountdowns ==
    /\ Applied("SET_BPM") =>
          /\ EngineState =
                [last.pre EXCEPT !.bpm = last.msg.payload,
                                 !.samplesPerBeat = Frac(sampleRate * 60, last.msg.payload)]
          /\ nextClickCountdown = last.pre.nextClickCountdown
          /\ ticksUntilNextClock = last.pre.ticksUntilNextClock
    /\ clk.due.beat >= 0 =>
          /\ (~clk.toggled /\ clk.beats # << >>) => clk.beats[1] = clk.due.beat
          /\ clk.ticks # << >> => clk.ticks[1] = clk.due.tick
          /\ ~clk.toggled =>
                \A k \in 2..Len(clk.beats) :
                    clk.beats[k] - clk.beats[k - 1] = FracCeil(samplesPerBeat)
          /\ \A k \in 2..Len(clk.ticks) :
                clk.ticks[k] - clk.ticks[k - 1] = FracCeil(FracDiv(samplesPerBeat, 24))

\* The tempo was set inside a beat while a voice was playing: the voice plays
\* on and the beat in flight has come at its old frame.
C11_Witness ==
    /\ Rendered /\ ~clk.toggled
    /\ clk.due.beat > clk.due.tick /\ clk.beats # << >> /\ clk.beats[1] = clk.due.beat
    /\ Len(applied) = 3 /\ applied[1].type = "LOAD_SAMPLE"
    /\ applied[2].type = "PLAY_SAMPLE" /\ applied[3].type = "SET_BPM"
    /\ Len(activeVoices) = 1 /\ activeVoices[1].bufferIndex = last.n

-----------------------------------------------------------------------------
(* Pads and their visualization buses: identifiers of every kind *)

PadRates == {2}
PadBlocks == {4}
PadIds == {Pad2, Pad16, Pad0}
PadCmds ==
    {LoadSample(id, BufStereo) : id \in PadIds}
    \cup {PlaySample(id, 1) : id \in PadIds}
    \cup {ToggleTone(TRUE), ToggleMetronome(TRUE)}

InitPads ==
    /\ sampleRate \in PadRates
    /\ lim = Limits(1, MaxPadCmds, MaxPadFrames, FALSE)
    /\ Constructed

NextPads ==
    \/ \E cmd \in PadCmds : Send(cmd)
    \/ OnMessage
    \/ \E n \in PadBlocks : Process(n)

SpecPads == InitPads /\ [][NextPads]_vars

\* Triggers of identifiers that name a pad or none.
SlotIds == {Pad16, Pad0, Pad17, PadX}
SlotCmds ==
    {LoadSample(id, BufStereo) : id \in SlotIds}
    \cup {PlaySample(id, 1) : id \in SlotIds}

NextSlots ==
    \/ \E cmd \in SlotCmds : Send(cmd)
    \/ OnMessage
    \/ \E n \in PadBlocks : Process(n)

SpecSlots == InitPads /\ [][NextSlots]_vars

-----------------------------------------------------------------------------
(* Properties of the sampler *)

Playing(voices) == SelectSeq(voices, LAMBDA x : x.isPlaying)
InGroup(voice, group) ==
    Has(chokeGroups, voice.sampleId) /\ chokeGroups[voice.sampleId] = group

\* What the voices alone put on a bus: the click and tone terms left out.
VoicePart(bus) == [i \in DOMAIN bus |-> [v |-> bus[i].v, nan |-> bus[i].nan]]
VoiceParts(out) ==
    [mix |-> [ch \in DOMAIN out.mix |-> VoicePart(out.mix[ch])],
     vis |-> [k \in DOMAIN out.vis |-> VoicePart(out.vis[k])]]

\* The buses a block of n frames gets from the voices alone.
SamplerOut(voices, n) ==
    Sampler([voices |-> voices, out |-> ClearOutputs(n)], Len(voices), n).out

\* C2: a PLAY_SAMPLE of a loaded pad of choke group g stops every playing voice
\* whose pad maps to g and leaves every other voice as it was; a stopped voice
\* writes nothing in the next block and is removed in it.
C2_ChokeStopsGroupOnly ==
    /\ (Applied("PLAY_SAMPLE") /\ Has(sampleBuffers, last.msg.id)
            /\ Has(chokeGroups, last.msg.id)) =>
          LET before == last.pre.activeVoices
          IN  /\ Len(activeVoices) = Len(before) + 1
              /\ \A k \in 1..Len(before) :
                    IF before[k].isPlaying
                       /\ InGroup(before[k], chokeGroups[last.msg.id])
                    THEN activeVoices[k] = [before[k] EXCEPT !.isPlaying = FALSE]
                    ELSE activeVoices[k] = before[k]
    /\ Rendered =>
          /\ VoiceParts(outputs) = VoiceParts(SamplerOut(Playing(last.voices), last.n))
          /\ Len(activeVoices) <= Len(Playing(last.voices))
          /\ \A k \in 1..Len(activeVoices) : activeVoices[k].isPlaying

\* A trigger has just stopped a playing voice of another pad of its group and
\* left alone an older playing voice that has rendered a block.
C2_Witness ==
    /\ Applied("PLAY_SAMPLE") /\ Has(sampleBuffers, last.msg.id)
    /\ Has(chokeGroups, last.msg.id)
    /\ \E j \in 1..Len(last.pre.activeVoices) :
          /\ last.pre.activeVoices[j].isPlaying /\ ~activeVoices[j].isPlaying
          /\ activeVoices[j].sampleId # last.msg.id
          /\ activeVoices[j].bufferIndex > 0

\* A trigger of a pad with a group has left alone a playing voice outside it.
C2_Unaffected ==
    /\ Applied("PLAY_SAMPLE") /\ Has(sampleBuffers, last.msg.id)
    /\ Has(chokeGroups, last.msg.id)
    /\ \E k \in 1..Len(last.pre.activeVoices) :
          /\ activeVoices[k].isPlaying
          /\ ~InGroup(activeVoices[k], chokeGroups[last.msg.id])

\* C5: a PLAY_SAMPLE of a pad without a sample changes nothing in the engine
\* and posts no event.
C5_UnloadedTriggerIsNoOp ==
    (Applied("PLAY_SAMPLE") /\ ~Has(sampleBuffers, last.msg.id)) =>
        /\ EngineState = last.pre
        /\ posted = << >>

\* An unloaded pad was triggered while a voice of its choke group was playing.
C5_Witness ==
    /\ Applied("PLAY_SAMPLE") /\ ~Has(sampleBuffers, last.msg.id)
    /\ Has(chokeGroups, last.msg.id)
    /\ \E k \in 1..Len(activeVoices) :
          activeVoices[k].isPlaying /\ InGroup(activeVoices[k], chokeGroups[last.msg.id])

\* What a playing voice with its cursor at c is to add to frame i (from 0) of
\* master channel ch (from 1) when it renders the sample buf: buf[c + i] * gain
\* while c + i is inside buf, nothing after.
Adds(buf, voice, ch, i) ==
    IF voice.isPlaying /\ voice.bufferIndex + i < Len(buf[1])
    THEN buf[Min(ch - 1, Len(buf) - 1) + 1][voice.bufferIndex + i + 1] * voice.gain
    ELSE 0

RECURSIVE SumAdds(_, _, _, _)
SumAdds(voices, B(_), ch, i) ==
    IF voices = << >> THEN 0
    ELSE Adds(B(Head(voices)), Head(voices), ch, i) + SumAdds(Tail(voices), B, ch, i)

\* The master bus and the voices a block of n frames is to leave, B(voice)
\* being the sample a voice renders.
MixOf(voices, B(_), n) ==
    [ch \in 1..2 |-> [i \in 1..n |-> [v |-> SumAdds(voices, B, ch, i - 1), nan |-> FALSE]]]

RECURSIVE LeftOf(_, _, _)
LeftOf(voices, B(_), n) ==
    IF voices = << >> THEN << >>
    ELSE LET x == Head(voices)
         IN  (IF x.isPlaying /\ x.bufferIndex + n < Len(B(x)[1])
              THEN <<[x EXCEPT !.bufferIndex = @ + n]>> ELSE << >>)
             \o LeftOf(Tail(voices), B, n)

StartedWith(voice) == voice.started
HeldNow(voice) == sampleBuffers[voice.sampleId]

\* C3: a voice renders the buffer it was triggered with, also after LOAD_SAMPLE
\* has replaced the sample of its pad: every frame it writes is taken from that
\* buffer at its cursor, and it ends at that buffer's length.
C3_VoiceKeepsItsBuffer ==
    Rendered =>
        /\ VoicePart(outputs.mix[1]) = MixOf(last.voices, StartedWith, last.n)[1]
        /\ VoicePart(outputs.mix[2]) = MixOf(last.voices, StartedWith, last.n)[2]
        /\ activeVoices = LeftOf(last.voices, StartedWith, last.n)

\* C4: process() reads every sample value inside the buffer it reads from: no
\* frame of any bus is made of an undefined value.
C4_NoUndefinedRead ==
    /\ \A ch \in DOMAIN outputs.mix : \A i \in DOMAIN outputs.mix[ch] :
          ~outputs.mix[ch][i].nan
    /\ \A k \in DOMAIN outputs.vis : \A i \in DOMAIN outputs.vis[k] :
          ~outputs.vis[k][i].nan

\* C6: a playing voice with gain g and cursor c over the sample of length L of
\* its pad adds sample[c + i] * g to master frame i for i < min(n, L - c) and
\* nothing to the other frames, and is removed in the block when c + n >= L.
C6_VoiceRendersToItsEnd ==
    Rendered =>
        /\ VoicePart(outputs.mix[1]) = MixOf(last.voices, HeldNow, last.n)[1]
        /\ VoicePart(outputs.mix[2]) = MixOf(last.voices, HeldNow, last.n)[2]
        /\ activeVoices = LeftOf(last.voices, HeldNow, last.n)

\* Every voice of the block had its cursor inside the sample of its pad.
CursorsInside(voices) ==
    \A k \in 1..Len(voices) : voices[k].bufferIndex < Len(HeldNow(voices[k])[1])

\* C6 for the blocks whose voices all had their cursor inside their sample.
C6_InsideTheSample == (Rendered /\ CursorsInside(last.voices)) => C6_VoiceRendersToItsEnd

\* C6, the scenario: [1,1,1,1] at velocity 0.5 (gain 1, in halves) into a block
\* of 8 frames gives 0.5 on frames 0-3, 0 on frames 4-7 and no voice left.
C6_Scenario ==
    (/\ Rendered /\ last.n = 8 /\ Len(last.voices) = 1
     /\ last.voices[1].isPlaying /\ last.voices[1].bufferIndex = 0
     /\ last.voices[1].gain = 1 /\ HeldNow(last.voices[1]) = BufOnes) =>
        /\ \A ch \in 1..2 : \A i \in 1..8 :
              outputs.mix[ch][i].v = (IF i <= 4 THEN 1 ELSE 0) /\ ~outputs.mix[ch][i].nan
        /\ activeVoices = << >>

C6_ScenarioReached ==
    /\ Rendered /\ last.n = 8 /\ Len(last.voices) = 1
    /\ last.voices[1].isPlaying /\ last.voices[1].bufferIndex = 0
    /\ last.voices[1].gain = 1 /\ HeldNow(last.voices[1]) = BufOnes

-----------------------------------------------------------------------------
(* Properties of the visualization buses *)

\* The identifier of the k-th pad, k in 1..16: `pad${k}`.
PadName(k) ==
    <<"p", "a", "d">>
    \o (IF k >= 10 THEN <<Digits[(k \div 10) + 1]>> ELSE << >>)
    \o <<Digits[(k % 10) + 1]>>

OfPad(voices, id) == SelectSeq(voices, LAMBDA x : x.sampleId = id)
InSlot(voices, slot) == SelectSeq(voices, LAMBDA x : SlotOf(x.sampleId) = slot)

\* What the voices are to put on a visualization bus in a block of n frames:
\* channel 0 of their samples, from their cursors, times their gains.
VisOf(voices, n) ==
    [i \in 1..n |-> [v |-> SumAdds(voices, HeldNow, 1, i - 1), nan |-> FALSE]]

NoTone(bus) == \A i \in DOMAIN bus : bus[i].tone = << >>

\* C15: in every block visualization bus k (0..15) carries the voices of the
\* (k+1)-th pad and nothing else; neither the click nor the tone is on it.
C15_VisBusOfItsPad ==
    Rendered =>
        \A k \in 1..NumVis :
            /\ VoicePart(outputs.vis[k]) = VisOf(OfPad(last.voices, PadName(k)), last.n)
            /\ NoClick(outputs.vis[k]) /\ NoTone(outputs.vis[k])

\* C15, as the code has it: bus k carries the voices whose identifier gives
\* slot k, which are those of the (k+1)-th pad and, on bus 0, those of every
\* identifier that names none of the 16 pads; a voice keeps the slot of its
\* identifier; neither the click nor the tone is on a visualization bus.
C15_VisBusOfItsSlot ==
    /\ \A k \in 1..NumVis : SlotOf(PadName(k)) = k - 1
    /\ \A j \in 1..Len(activeVoices) :
          /\ activeVoices[j].visSlot = SlotOf(activeVoices[j].sampleId)
          /\ activeVoices[j].visSlot \in 0..(NumVis - 1)
    /\ Rendered =>
          \A k \in 1..NumVis :
              /\ VoicePart(outputs.vis[k]) = VisOf(InSlot(last.voices, k - 1), last.n)
              /\ NoClick(outputs.vis[k]) /\ NoTone(outputs.vis[k])

\* A block has rendered a voice of pad2 and a voice of pad16: each is on its
\* own bus, and bus 0 is silent.
C15_Witness ==
    /\ Rendered /\ Len(last.voices) = 2
    /\ last.voices[1].sampleId = Pad2 /\ last.voices[2].sampleId = Pad16
    /\ outputs.vis[2][1].v # 0 /\ outputs.vis[16][1].v # 0
    /\ outputs.vis[1][1].v = 0

\* A block has rendered a voice with the click and the tone on the master bus.
C15_ClickAndTone ==
    /\ Rendered /\ Len(last.voices) = 1
    /\ outputs.mix[1][1].click # << >> /\ outputs.mix[1][1].tone # << >>

NamesNoPad(id) == ~\E k \in 1..NumVis : id = PadName(k)

\* C16: a PLAY_SAMPLE of a loaded sample whose identifier names none of the
\* pads 1..16 (no number, 0, 17) still adds a voice, with slot 0; the slot of
\* every voice is in 0..15.
C16_MalformedPadGetsSlot0 ==
    /\ (Applied("PLAY_SAMPLE") /\ Has(sampleBuffers, last.msg.id)) =>
          /\ Len(activeVoices) = Len(last.pre.activeVoices) + 1
          /\ LET voice == activeVoices[Len(activeVoices)]
              IN  /\ voice.sampleId = last.msg.id /\ voice.bufferIndex = 0
                  /\ voice.isPlaying /\ voice.gain = last.msg.velocity
                  /\ NamesNoPad(last.msg.id) => voice.visSlot = 0
    /\ \A j \in 1..Len(activeVoices) : activeVoices[j].visSlot \in 0..(NumVis - 1)
    /\ \A id \in {Pad0, Pad17, PadX} : NamesNoPad(id)

\* A loaded sample named pad17 was triggered: its voice has slot 0.
C16_Witness ==
    /\ Applied("PLAY_SAMPLE") /\ last.msg.id = Pad17 /\ Has(sampleBuffers, Pad17)
    /\ Len(activeVoices) = 1 /\ activeVoices[1].visSlot = 0
    /\ activeVoices[1].sampleId = Pad17

-----------------------------------------------------------------------------
(* Relations between commands and between blocks *)

\* C17: a LOAD_SAMPLE of the buffers the pad holds already leaves every field
\* of the processor as it was: whatever commands and blocks follow, the buses
\* are those that follow the first load.
C17_LoadTwiceIsLoadOnce ==
    (/\ Applied("LOAD_SAMPLE") /\ Has(last.pre.sampleBuffers, last.msg.id)
     /\ last.pre.sampleBuffers[last.msg.id] = last.msg.buffers) =>
        EngineState = last.pre

\* The sample of a pad was loaded again while a voice of the pad was inside it.
C17_Witness ==
    /\ Applied("LOAD_SAMPLE") /\ Has(last.pre.sampleBuffers, last.msg.id)
    /\ last.pre.sampleBuffers[last.msg.id] = last.msg.buffers
    /\ \E j \in 1..Len(activeVoices) :
          /\ activeVoices[j].sampleId = last.msg.id
          /\ activeVoices[j].isPlaying /\ activeVoices[j].bufferIndex > 0

Silent(bus, n) == bus = [i \in 1..n |-> Silence]

\* C18: a block starts from silence: whatever the output buffers held, a bus no
\* playing voice writes to carries no sample, the mix carries the tone only
\* when the tone is on and the click only when the metronome is on, and a
\* block with no voice, the metronome off and the tone off is silent on the
\* master bus and on the 16 visualization buses.
C18_BlockStartsFromSilence ==
    Rendered =>
        /\ DOMAIN outputs.mix = 1..2 /\ DOMAIN outputs.vis = 1..NumVis
        /\ \A k \in 1..NumVis :
              InSlot(Playing(last.voices), k - 1) = << >> => Silent(outputs.vis[k], last.n)
        /\ \A ch \in 1..2 :
              /\ Playing(last.voices) = << >> =>
                    VoicePart(outputs.mix[ch]) = VoicePart([i \in 1..last.n |-> Silence])
              /\ ~isTonePlaying => NoTone(outputs.mix[ch])
              /\ ~isMetronomeEnabled => NoClick(outputs.mix[ch])
        /\ (last.voices = << >> /\ ~isTonePlaying /\ ~isMetronomeEnabled) =>
              /\ \A ch \in 1..2 : Silent(outputs.mix[ch], last.n)
              /\ \A k \in 1..NumVis : Silent(outputs.vis[k], last.n)

\* The second block is silent after a first block that rendered a voice.
C18_Witness ==
    /\ Rendered /\ clk.now = 2 * last.n /\ last.voices = << >>
    /\ ~isTonePlaying /\ ~isMetronomeEnabled
    /\ Len(applied) >= 2 /\ applied[1] = LoadSample(Pad1, BufOnes)
    /\ applied[2] = PlaySample(Pad1, 1)
    /\ \A k \in 1..NumVis : Silent(outputs.vis[k], last.n)

-----------------------------------------------------------------------------
(* The mixdown of several voices: samples that need every bit of a float32 *)

MixRates == {2}
MixBlocks == {4}
MixCmds ==
    {LoadSample(Pad1, BufFull), LoadSample(Pad2, BufLsb), LoadSample(Pad2, BufLong),
     PlaySample(Pad1, 1), PlaySample(Pad2, 1)}

InitMix ==
    /\ sampleRate \in MixRates
    /\ lim = Limits(1, MaxMixCmds, MaxMixFrames, FALSE)
    /\ Constructed

NextMix ==
    \/ \E cmd \in MixCmds : Send(cmd)
    \/ OnMessage
    \/ \E n \in MixBlocks : Process(n)

SpecMix == InitMix /\ [][NextMix]_vars

\* The voices in every order.
Orders(voices) ==
    {[k \in 1..Len(voices) |-> voices[f[k]]] : f \in Permutations(1..Len(voices))}

Count(seq, x) == Cardinality({k \in 1..Len(seq) : seq[k] = x})
SameVoices(s, t) ==
    /\ Len(s) = Len(t)
    /\ \A k \in 1..Len(s) : Count(s, s[k]) = Count(t, s[k])

\* What the sampler loop makes of the voices in a block of n frames.
SamplerOn(voices, n) == Sampler([voices |-> voices, out |-> ClearOutputs(n)], Len(voices), n)

\* C19: with the voices of a block in any other order, the block has the same
\* master and visualization buses and leaves the same voices.
C19_AnyOrderSameBuses ==
    Rendered =>
        \A p \in Orders(last.voices) :
            /\ VoiceParts(SamplerOn(p, last.n).out) = VoiceParts(outputs)
            /\ SameVoices(SamplerOn(p, last.n).voices, activeVoices)

\* Two values of a bus are the same up to the rounding of count additions.
Near(x, y, count) == Abs(x - y) <= count * UlpOf(IF Abs(x) > Abs(y) THEN Abs(x) ELSE Abs(y))
NearBus(a, b, count) ==
    /\ DOMAIN a = DOMAIN b
    /\ \A i \in DOMAIN a : a[i].nan = b[i].nan /\ Near(a[i].v, b[i].v, count)

\* C19, as the code has it: in any other order the block leaves the same
\* voices, and its buses are the same up to the rounding of the float32
\* additions (and the same where every sum is a float32).
C19_AnyOrderSameUpToRounding ==
    Rendered =>
        \A p \in Orders(last.voices) :
            LET r == SamplerOn(p, last.n)
            IN  /\ SameVoices(r.voices, activeVoices)
                /\ \A ch \in 1..2 : NearBus(r.out.mix[ch], outputs.mix[ch], Len(p))
                /\ \A k \in 1..NumVis : NearBus(r.out.vis[k], outputs.vis[k], Len(p))
                /\ (\A ch \in 1..2 : \A i \in 1..last.n :
                        MixOf(last.voices, HeldNow, last.n)[ch][i].v < F32Integers) =>
                      VoiceParts(r.out) = VoiceParts(outputs)

\* Three voices of two pads were rendered in one block, one of them to its
\* end and one not.
C19_Witness ==
    /\ Rendered /\ Len(last.voices) = 3 /\ Len(activeVoices) = 2
    /\ last.voices[1].sampleId = Pad2 /\ last.voices[2].sampleId = Pad1
    /\ last.voices[3].sampleId = Pad2
    /\ outputs.mix[1][1].v > F32Integers

-----------------------------------------------------------------------------
(* Overlapping triggers *)

\* C20: a PLAY_SAMPLE of a loaded pad leaves every earlier voice of that pad
\* as it was, playing voices playing, and adds a voice with its own cursor;
\* the voices it stops are voices of other pads of its choke group.
C20_SamePadVoicesCoexist ==
    (Applied("PLAY_SAMPLE") /\ Has(sampleBuffers, last.msg.id)) =>
        LET before == last.pre.activeVoices
        IN  /\ Len(activeVoices) = Len(before) + 1
            /\ activeVoices[Len(activeVoices)].bufferIndex = 0
            /\ activeVoices[Len(activeVoices)].isPlaying
            /\ \A k \in 1..Len(before) :
                  /\ before[k].sampleId = last.msg.id => activeVoices[k] = before[k]
                  /\ activeVoices[k] # before[k] =>
                        /\ before[k].sampleId # last.msg.id
                        /\ Has(chokeGroups, last.msg.id)
                        /\ InGroup(before[k], chokeGroups[last.msg.id])

\* The same for the pads that have no choke group.
C20_WithoutGroup ==
    (Applied("PLAY_SAMPLE") /\ ~Has(chokeGroups, last.msg.id)) => C20_SamePadVoicesCoexist

\* A pad without a choke group was triggered while a voice of it was inside
\* the sample: both play.
C20_WithoutGroupReached ==
    /\ Applied("PLAY_SAMPLE") /\ ~Has(chokeGroups, last.msg.id)
    /\ Len(activeVoices) = 2
    /\ activeVoices[1].sampleId = last.msg.id /\ activeVoices[2].sampleId = last.msg.id
    /\ activeVoices[1].isPlaying /\ activeVoices[1].bufferIndex > 0

-----------------------------------------------------------------------------
(* The event outlet: the control side takes the events when it gets to them *)

EventRates == {480}
EventBlocks == {8}
EventCmds ==
    {LoadSample(Pad1, BufLong), PlaySample(Pad1, 1), ToggleMetronome(TRUE)}

\* The handler, were it to answer a BEAT by sending the tempo again.
WorkletCallbackSyncing(msg) ==
    [beatPulse |-> beatPulse \/ msg.type = "BEAT",
     cmds |-> IF msg.type = "BEAT" THEN <<SetBpm(120)>> ELSE << >>]

\* The handler the control side installs with setWorkletCallback: a BEAT
\* restarts the pulse of the tempo display; it posts no command.
WorkletCallback(msg) ==
    [beatPulse |-> beatPulse \/ msg.type = "BEAT", cmds |-> << >>]

\* What the worklet would do next, as the state is: apply the command at the
\* head of the port, render a block.
WouldApply == IF port # << >> THEN After(NextMessage) ELSE EngineState
WouldRender == [n \in EventBlocks |-> Render(n)]

\* workletNode.port.onmessage: the oldest event in flight reaches the handler.
OnWorkletMessage ==
    /\ outlet # << >>
    /\ \E c \in {WorkletCallback(Head(outlet))} :
          /\ beatPulse' = c.beatPulse
          /\ port' = port \o c.cmds
          /\ sent' = IF lim.sent > 0 THEN sent \o c.cmds ELSE sent
    /\ outlet' = Tail(outlet)
    /\ last' = [op |-> "event", ev |-> Head(outlet), pre |-> EngineState,
                port |-> port, apply |-> WouldApply, render |-> WouldRender]
    /\ outputs' = NoOutputs
    /\ posted' = << >>
    /\ UNCHANGED <<sampleRate, engine, lim, applied, clk, page>>

\* The oldest event in flight never reaches a handler.
LoseEvent ==
    /\ outlet # << >>
    /\ outlet' = Tail(outlet)
    /\ last' = [op |-> "lost", ev |-> Head(outlet), pre |-> EngineState,
                port |-> port, apply |-> WouldApply, render |-> WouldRender]
    /\ outputs' = NoOutputs
    /\ posted' = << >>
    /\ UNCHANGED <<sampleRate, port, engine, lim, sent, applied, clk, beatPulse, page>>

InitEvents ==
    /\ sampleRate \in EventRates
    /\ lim = LimitsWithOutlet(1, MaxEventCmds, MaxEventFrames)
    /\ Constructed

NextEvents ==
    \/ \E cmd \in EventCmds : Send(cmd)
    \/ OnMessage
    \/ \E n \in EventBlocks : Process(n)
    \/ OnWorkletMessage
    \/ LoseEvent

SpecEvents == InitEvents /\ [][NextEvents]_vars

EndsWith(seq, tail) ==
    /\ Len(seq) >= Len(tail)
    /\ SubSeq(seq, Len(seq) - Len(tail) + 1, Len(seq)) = tail

\* C21: the events are advisory.  An event that is taken by the control side,
\* or lost, leaves the fields of the processor and the commands in flight as
\* they were, and what the worklet does next (the command it applies, the
\* block it renders: fields, buses and events) is what it would have done with
\* the event still in flight; the worklet never waits for the outlet: whatever
\* is in flight there, the command at the head of the port can be applied, and
\* the events of a command and of a block are queued behind the others.
C21_EventsAreAdvisory ==
    /\ last.op \in {"event", "lost"} =>
          /\ EngineState = last.pre
          /\ port = last.port
          /\ WouldApply = last.apply
          /\ WouldRender = last.render
    /\ port # << >> => ENABLED OnMessage
    /\ last.op \in {"message", "process"} => EndsWith(outlet, posted)

\* An event has just been lost while an older BEAT had been taken, two blocks
\* had been rendered, events were in flight and a voice was to be rendered.
C21_Witness ==
    /\ last.op = "lost" /\ beatPulse /\ outlet # << >>
    /\ clk.now >= 2 * 8
    /\ Len(activeVoices) = 1 /\ activeVoices[1].isPlaying
    /\ last.render[8].sampler.out.mix[1][1].v # 0

\* Blocks were rendered while no event was ever taken: all are in flight.
C21_Delayed ==
    /\ Rendered /\ clk.now = MaxEventFrames /\ Len(outlet) >= 4 /\ ~beatPulse
    /\ outlet[1] = Event("BEAT", 0, 0)

-----------------------------------------------------------------------------
(* The pads of the page and the samples it keeps in IndexedDB.  The database *)
(* opens (persistence.init) and the audio context is created                 *)
(* (audioManager.init) at every start-up.                                    *)

\* A file: its name and its bytes.  The bytes are named after what they hold.
File(name, bytes) == [name |-> name, bytes |-> bytes]

KitFiles == {File("kick.wav", "ones"), File("hat.wav", "stereo"), File("notes.txt", "text")}

\* context.decodeAudioData(arrayBuffer): the channels of the audio the bytes
\* hold; it rejects bytes that hold no audio.
DecodeAudioData(bytes) ==
    CASE bytes = "ones" -> [ok |-> TRUE, channels |-> BufOnes]
      [] bytes = "stereo" -> [ok |-> TRUE, channels |-> BufStereo]
      [] OTHER -> [ok |-> FALSE, channels |-> << >>]

\* new File([blob], "saved-sample.wav", { type: blob.type })
SavedFile(blob) == File("saved-sample.wav", blob.bytes)

\* audioManager.loadUserSample(id, file): the commands it posts, or it throws.
LoadUserSample(id, file) ==
    LET audioBuffer == DecodeAudioData(file.bytes)
    IN  IF audioBuffer.ok
        THEN [ok |-> TRUE, cmds |-> <<LoadSample(id, audioBuffer.channels)>>]
        ELSE [ok |-> FALSE, cmds |-> << >>]

\* loadSampleToPad, were the file saved whether or not it could be loaded.
SaveSampleAnyway(padId, file, loaded) ==
    Append(transactions, [op |-> "put", key |-> padId, value |-> file])

\* persistence.saveSample(padId, file) in loadSampleToPad: reached when
\* loadUserSample has not thrown; it creates a transaction that puts the file
\* under the key padId.
SaveSample(padId, file, loaded) ==
    IF loaded.ok
    THEN Append(transactions, [op |-> "put", key |-> padId, value |-> file])
    ELSE transactions

\* loadSampleToPad(padId, file), up to the transaction it creates.
LoadSampleToPad(padId, file) ==
    /\ isInitialized
    /\ Len(port) < lim.queue /\ Len(sent) < lim.sent
    /\ Len(transactions) < MaxTransactions /\ startups.created < MaxJournal
    /\ \E loaded \in {LoadUserSample(padId, file)} :
          /\ port' = port \o loaded.cmds
          /\ sent' = sent \o loaded.cmds
          /\ transactions' = SaveSample(padId, file, loaded)
          /\ startups' = [startups EXCEPT !.created = @ + Len(loaded.cmds)]
    /\ last' = [op |-> "loadSampleToPad", id |-> padId, file |-> file]
    /\ outputs' = NoOutputs
    /\ posted' = << >>
    /\ UNCHANGED <<sampleRate, engine, lim, applied, clk, outlet, beatPulse,
                   isInitialized, samplesStore, padsLoaded, control>>

\* The CLR button, confirmed: persistence.clear() creates a transaction that
\* clears the store.
Clr ==
    /\ isInitialized
    /\ Len(transactions) < MaxTransactions /\ startups.created < MaxJournal
    /\ transactions' = Append(transactions, [op |-> "clear"])
    /\ startups' = [startups EXCEPT !.created = @ + 1]
    /\ last' = [op |-> "clr"]
    /\ outputs' = NoOutputs
    /\ posted' = << >>
    /\ UNCHANGED <<sampleRate, port, engine, lim, sent, applied, clk, outlet, beatPulse,
                   isInitialized, samplesStore, padsLoaded, control>>

\* The oldest transaction is done, and the handler that awaits it goes on.  A
\* put that succeeds (ok) stores the file and loadSampleToPad marks the pad; a
\* put that fails rejects, and loadSampleToPad logs it; a clear empties the
\* store and the CLR handler takes the marks off all pads.
TransactionDone(ok) ==
    /\ transactions # << >>
    /\ LET tx == Head(transactions)
       IN  /\ samplesStore' = (IF tx.op = "clear" THEN << >>
                               ELSE IF ok THEN MapSet(samplesStore, tx.key, tx.value)
                               ELSE samplesStore)
           /\ padsLoaded' = (IF tx.op = "clear" THEN {}
                             ELSE IF ok THEN padsLoaded \cup {tx.key}
                             ELSE padsLoaded)
           /\ startups' =
                 [startups EXCEPT !.journal =
                     IF tx.op = "clear" THEN Append(@, [op |-> "cleared"])
                     ELSE IF ok THEN Append(@, [op |-> "stored", key |-> tx.key,
                                                value |-> tx.value])
                     ELSE @]
           /\ last' = [op |-> "transaction", tx |-> tx, ok |-> ok]
    /\ transactions' = Tail(transactions)
    /\ control' = IF control.waiting = 1
                  THEN [control EXCEPT !.waiting = 0, !.kit = Tail(@)]
                  ELSE IF control.waiting > 1 THEN [control EXCEPT !.waiting = @ - 1]
                  ELSE control
    /\ outputs' = NoOutputs
    /\ posted' = << >>
    /\ UNCHANGED <<sampleRate, port, engine, lim, sent, applied, clk, outlet, beatPulse,
                   isInitialized>>

\* The order of the keys of an object store: strings by their code units.
CharCode(c) ==
    IF IsDigit(c) THEN 48 + DigitVal(c)
    ELSE CASE c = "a" -> 97 [] c = "d" -> 100 [] c = "p" -> 112 [] OTHER -> 120

RECURSIVE KeyLess(_, _)
KeyLess(a, b) ==
    IF b = << >> THEN FALSE
    ELSE IF a = << >> THEN TRUE
    ELSE IF Head(a) # Head(b) THEN CharCode(Head(a)) < CharCode(Head(b))
    ELSE KeyLess(Tail(a), Tail(b))

\* The keys in the order a cursor walks them.
RECURSIVE CursorOrder(_)
CursorOrder(keys) ==
    IF keys = {} THEN << >>
    ELSE LET first == CHOOSE k \in keys : \A j \in keys \ {k} : KeyLess(k, j)
         IN  <<first>> \o CursorOrder(keys \ {first})

\* persistence.getAllSamples(): every key of the store with its blob.
GetAllSamples == samplesStore

\* The loop of loadAllSavedSamples over the entries from the k-th on: r =
\* [cmds, loaded].  A loadUserSample that throws ends the loop: the catch is
\* around it.
RECURSIVE LoadAllSavedSamples(_, _, _, _)
LoadAllSavedSamples(samples, keys, k, r) ==
    IF k > Len(keys) THEN r
    ELSE LET loaded == LoadUserSample(keys[k], SavedFile(samples[keys[k]]))
         IN  IF ~loaded.ok THEN r
             ELSE LoadAllSavedSamples(samples, keys, k + 1,
                      [cmds |-> r.cmds \o loaded.cmds,
                       loaded |-> r.loaded \cup {keys[k]}])

\* The page is loaded again and started: a new worklet, the tempo sent
\* (audioManager.setBpm(currentBpm), 120 on a new page), the pads generated,
\* then the saved samples loaded.  The transactions the old page had pending
\* are lost with it.
StartUp ==
    /\ startups.n < MaxStartups
    /\ \E samples \in {GetAllSamples} :
       \E r \in {LoadAllSavedSamples(samples, CursorOrder(DOMAIN samples), 1,
                                     [cmds |-> << >>, loaded |-> {}])} :
          /\ port' = <<SetBpm(120)>> \o r.cmds
          /\ sent' = <<SetBpm(120)>> \o r.cmds
          /\ padsLoaded' = r.loaded
          /\ startups' = [startups EXCEPT !.n = @ + 1, !.found = samples]
    /\ isInitialized' = TRUE
    /\ transactions' = << >>
    /\ isTonePlaying' = FALSE
    /\ phase' = <<0, 1>>
    /\ sampleBuffers' = << >>
    /\ activeVoices' = << >>
    /\ chokeGroups' = << >>
    /\ isMetronomeEnabled' = FALSE
    /\ bpm' = 120
    /\ metronomePhase' = 0
    /\ currentBeat' = 0
    /\ clickFreq' = 10
    /\ clickAmp' = 30
    /\ nextClickCountdown' = <<0, 1>>
    /\ samplesPerBeat' = UpdateTiming(sampleRate, 120)
    /\ ticksUntilNextClock' = <<0, 1>>
    /\ outputs' = NoOutputs
    /\ posted' = << >>
    /\ last' = [op |-> "startup"]
    /\ applied' = << >>
    /\ clk' = NoClk
    /\ outlet' = << >>
    /\ beatPulse' = FALSE
    /\ UNCHANGED <<sampleRate, lim, samplesStore, control>>

\* The first page has started with nothing stored.
InitStore ==
    /\ sampleRate = 48
    /\ lim = Limits(MaxStoreCmds, MaxStoreCmds, 8, FALSE)
    /\ Worklet
    /\ isInitialized = TRUE
    /\ samplesStore = << >>
    /\ transactions = << >>
    /\ padsLoaded = {}
    /\ startups = NoStartups
    /\ control = Started

NextStore ==
    \/ \E padId \in {Pad1, Pad2}, file \in KitFiles : LoadSampleToPad(padId, file)
    \/ Clr
    \/ \E ok \in BOOLEAN : TransactionDone(ok)
    \/ StartUp
    \/ OnMessage
    \/ Process(8)

SpecStore == InitStore /\ [][NextStore]_vars

\* What the journal leaves stored: the files loadSampleToPad has put, the last
\* for each pad, since the last CLR.
RECURSIVE Kept(_, _)
Kept(journal, acc) ==
    IF journal = << >> THEN acc
    ELSE Kept(Tail(journal),
              IF Head(journal).op = "cleared" THEN << >>
              ELSE MapSet(acc, Head(journal).key, Head(journal).value))

Occurrences(seq, x) == Cardinality({k \in 1..Len(seq) : seq[k] = x})

C22_Applied ==
    /\ startups.n > 0 /\ applied = sent /\ Len(sent) = 3
    /\ Has(sampleBuffers, Pad1) /\ Has(sampleBuffers, Pad2) /\ Rendered

-----------------------------------------------------------------------------
(* MIDI input: the messages of the connected inputs reach onMidiMessage once *)
(* the start-up has bound it and set the callbacks                           *)

BASE_MIDI == 48

\* PAD_CONFIG: { id: `pad${padNum}`, midi: BASE_MIDI + (padNum - 1) } for
\* padNum = r * 4 + c, r = 3..0, c = 1..4.
PAD_CONFIG ==
    {[id |-> PadName((r * 4) + c), midi |-> BASE_MIDI + (((r * 4) + c) - 1)] :
        r \in 0..3, c \in 1..4}

\* MIDI_TO_PAD, were the first pad at note 47.
MidiToPadFromZero == [m \in {p.midi - 1 : p \in PAD_CONFIG} |->
                         (CHOOSE p \in PAD_CONFIG : p.midi - 1 = m).id]

\* MIDI_TO_PAD[p.midi] = p.id
MIDI_TO_PAD == [m \in {p.midi : p \in PAD_CONFIG} |->
                   (CHOOSE p \in PAD_CONFIG : p.midi = m).id]

\* A velocity (1.0 is two halves) from the MIDI velocity: velocity / 127.
Velocity127(velocity) == Frac(2 * velocity, 127)

\* triggerVoice of the page, were it to post whatever isInitialized says.
PageTriggerVoiceUnguarded(padId, velocity) == <<PlaySample(padId, velocity)>>

\* triggerVoice(padId, velocity) of the page: the commands it posts.
PageTriggerVoice(padId, velocity) ==
    IF ~isInitialized THEN << >> ELSE <<PlaySample(padId, velocity)>>

\* handleMidiNote(note, velocity)
HandleMidiNote(note, velocity) ==
    IF note \in DOMAIN MIDI_TO_PAD
    THEN PageTriggerVoice(MIDI_TO_PAD[note], Velocity127(velocity))
    ELSE << >>

\* data[0] & 0xf0
MaskChannel(byte) == byte - (byte % 16)

\* onMidiMessage(event) on event.data: the commands that may be posted.  A
\* timing clock (0xF8) goes to handleClockTick, which after 24 of them may call
\* the bpm callback with the tempo it measured, and that posts SET_BPM when the
\* tempo is new.
OnMidiMessage(data) ==
    IF Len(data) = 0 THEN {<< >>}
    ELSE IF data[1] = 248 THEN {<< >>, <<SetBpm(90)>>}
    ELSE IF data[1] \in {250, 251, 252} THEN {<< >>}
    ELSE IF Len(data) < 3 THEN {<< >>}
    ELSE IF MaskChannel(data[1]) = 144 /\ data[3] > 0
         THEN {HandleMidiNote(data[2], data[3])}
    ELSE {<< >>}     \* note off: nothing; control change: the effect chain

MidiData ==
    {<<status, note, velocity>> : status \in {144, 147, 128, 176},
                                  note \in {47, 48, 55, 63, 64},
                                  velocity \in {0, 1, 64, 127}}
    \cup {<<248>>, <<250>>, <<144, 48>>}

\* A message of a MIDI input.
MidiMessage(data) ==
    /\ isInitialized
    /\ Len(port) < lim.queue
    /\ \E cmds \in OnMidiMessage(data) :
          /\ Len(sent) + Len(cmds) <= lim.sent
          /\ port' = port \o cmds
          /\ sent' = sent \o cmds
          /\ last' = [op |-> "midi", data |-> data, cmds |-> cmds, port |-> port]
    /\ outputs' = NoOutputs
    /\ posted' = << >>
    /\ UNCHANGED <<sampleRate, engine, lim, applied, clk, outlet, beatPulse, page>>

InitMidi ==
    /\ sampleRate = 48
    /\ lim = Limits(1, MaxMidiCmds, 0, FALSE)
    /\ Constructed

NextMidi ==
    \/ \E data \in MidiData : MidiMessage(data)
    \/ Send(LoadSample(Pad16, BufOnes))
    \/ OnMessage

SpecMidi == InitMidi /\ [][NextMidi]_vars

NoteOn(data) == Len(data) >= 3 /\ MaskChannel(data[1]) = 144 /\ data[3] \in 1..127

\* C23: a note-on (on any channel) for note n in 48..63 with velocity v in
\* 1..127 posts exactly one command, PLAY_SAMPLE for pad (n - 47) with velocity
\* v / 127, which is in (0, 1], and the voice it starts has that gain; a
\* note-on for any other note posts nothing.
C23_NoteOnPlaysItsPad ==
    /\ (last.op = "midi" /\ NoteOn(last.data)) =>
          LET n == last.data[2]
              v == last.data[3]
          IN  IF n \in 48..63
              THEN /\ last.cmds = <<PlaySample(PadName(n - 47), Frac(2 * v, 127))>>
                   /\ last.cmds[1].velocity[1] > 0
                   /\ last.cmds[1].velocity[1] <= 2 * last.cmds[1].velocity[2]
                   /\ port = Append(last.port, last.cmds[1])
              ELSE last.cmds = << >> /\ port = last.port
    /\ (Applied("PLAY_SAMPLE") /\ Has(sampleBuffers, last.msg.id)) =>
          activeVoices[Len(activeVoices)].gain = last.msg.velocity

\* A note-on on channel 4 for note 63 with velocity 64 has posted PLAY_SAMPLE
\* for pad16 with velocity 64/127.
C23_Witness ==
    /\ last.op = "midi" /\ last.data = <<147, 63, 64>>
    /\ port = <<PlaySample(Pad16, <<128, 127>>)>>

\* The voice of pad16 started by a note-on with velocity 1 has gain 1/127.
C23_Voice ==
    /\ Applied("PLAY_SAMPLE") /\ Len(activeVoices) = 1
    /\ activeVoices[1].gain = <<2, 127>> /\ activeVoices[1].sampleId = Pad16

-----------------------------------------------------------------------------
(* The life of a voice *)

\* The voices of the block that were playing and stay below the length of
\* their sample B(voice) in the block.
Survivors(B(_)) ==
    SelectSeq(last.voices,
              LAMBDA x : x.isPlaying /\ x.bufferIndex + last.n < Len(B(x)[1]))

\* What a block leaves when the sample of a voice is B(voice): playing voices
\* inside their sample, which are the survivors of the block, in their order,
\* each moved by the block.
OnlyPlayingVoicesStay(B(_)) ==
    /\ \A k \in 1..Len(activeVoices) :
          /\ activeVoices[k].isPlaying
          /\ Has(sampleBuffers, activeVoices[k].sampleId)
          /\ activeVoices[k].bufferIndex < Len(B(activeVoices[k])[1])
    /\ Len(activeVoices) = Len(Survivors(B))
    /\ \A k \in 1..Len(Survivors(B)) :
          activeVoices[k] = [Survivors(B)[k] EXCEPT !.bufferIndex = @ + last.n]

\* C24: after a process() call every voice left in the active set is playing
\* with its cursor below the length of its sample, the one process() renders it
\* from; the voices that were choked before the block and the voices that ran
\* off the end in it are gone, the others stay in their order, moved by the
\* block.
C24_OnlyPlayingVoicesStay == Rendered => OnlyPlayingVoicesStay(HeldNow)

\* The same with the sample the voice was triggered with, which LOAD_SAMPLE may
\* have replaced since: see C3.
C24_WithTheSampleAtTrigger == Rendered => OnlyPlayingVoicesStay(StartedWith)

\* A block of 4 frames over a choked voice, a voice that ends in the block and
\* a voice that goes on at cursor 4.
C24_Witness ==
    /\ Rendered /\ last.n = 4 /\ Len(last.voices) = 3
    /\ \E k \in 1..3 : ~last.voices[k].isPlaying
    /\ \E k \in 1..3 : /\ last.voices[k].isPlaying
                       /\ Len(HeldNow(last.voices[k])[1]) <= 4
    /\ Len(activeVoices) = 1 /\ activeVoices[1].bufferIndex = 4

\* A voice whose cursor was past the end of the sample that replaced its own is
\* removed by the block.
C24_PastTheEnd ==
    /\ Rendered /\ activeVoices = << >>
    /\ \E k \in 1..Len(last.voices) :
          /\ last.voices[k].isPlaying
          /\ last.voices[k].bufferIndex >= Len(HeldNow(last.voices[k])[1])

\* C25: a voice over a sample of length L leaves the active set no later than
\* the block in which the frames rendered since its trigger, which its cursor
\* counts, reach L: in blocks of N frames that is after at most ceil(L/N)
\* blocks.  No block adds a voice, so the set does not grow once triggers stop.
C25_VoicesLeaveInTime ==
    Rendered =>
        /\ \A k \in 1..Len(activeVoices) :
              activeVoices[k].bufferIndex < Len(StartedWith(activeVoices[k])[1])
        /\ Len(activeVoices) <= Len(last.voices)

\* C25 with the length of the sample the pad of the voice holds at the block.
C25_WithThePadsSample ==
    Rendered =>
        /\ \A k \in 1..Len(activeVoices) :
              activeVoices[k].bufferIndex < Len(HeldNow(activeVoices[k])[1])
        /\ Len(activeVoices) <= Len(last.voices)

\* A voice has gone on past one block and was removed by the next.
C25_LeftInTheSecondBlock ==
    /\ Rendered /\ Len(last.voices) = 1 /\ last.voices[1].bufferIndex = 4
    /\ last.voices[1].isPlaying /\ activeVoices = << >>
    /\ StartedWith(last.voices[1]) = HeldNow(last.voices[1])

-----------------------------------------------------------------------------
(* Voices under every kind of command *)

LifeRates == {48}
LifeBlocks == {4}
LifeCmds ==
    {LoadSample(Pad1, BufLong), LoadSample(Pad1, BufStereo), LoadSample(Pad2, BufOnes),
     PlaySample(Pad1, 3), PlaySample(Pad2, 1),
     SetChokeGroup(Pad1, 0), SetChokeGroup(Pad2, 0), SetChokeGroup(Pad2, 1),
     SetBpm(90), ToggleMetronome(TRUE), ToggleTone(TRUE)}

InitLife ==
    /\ sampleRate \in LifeRates
    /\ lim = Limits(1, 0, MaxLifeFrames, FALSE)
    /\ Constructed

NextLife ==
    \/ \E cmd \in LifeCmds : Send(cmd)
    \/ OnMessage
    \/ \E n \in LifeBlocks : Process(n)

SpecLife == InitLife /\ [][NextLife]_vars

\* The voices before the command that was applied last.
VoicesBefore == last.pre.activeVoices

\* The applied PLAY_SAMPLE was of a loaded pad with a choke group.
ChokingPlay ==
    /\ Applied("PLAY_SAMPLE")
    /\ Has(last.pre.sampleBuffers, last.msg.id)
    /\ Has(last.pre.chokeGroups, last.msg.id)

\* Voice k was stopped by the applied command.
StoppedByCommand(k) == VoicesBefore[k].isPlaying /\ ~activeVoices[k].isPlaying

\* C26: a command never removes a voice and never moves a cursor; only a
\* PLAY_SAMPLE of a loaded pad with a choke group stops voices, and only
\* playing voices of pads in that group; LOAD_SAMPLE, SET_BPM,
\* TOGGLE_METRONOME, TOGGLE_TONE, SET_CHOKE_GROUP and the other PLAY_SAMPLEs
\* leave every existing voice as it was.  A block removes a playing voice only
\* when its cursor reaches the sample length in it, and stops no other voice.
C26_VoicesStopInTwoWays ==
    /\ last.op = "message" =>
          /\ Len(activeVoices) >= Len(VoicesBefore)
          /\ \A k \in 1..Len(VoicesBefore) :
                /\ [activeVoices[k] EXCEPT !.isPlaying = TRUE]
                      = [VoicesBefore[k] EXCEPT !.isPlaying = TRUE]
                /\ VoicesBefore[k].isPlaying \/ ~activeVoices[k].isPlaying
                /\ StoppedByCommand(k) =>
                      /\ ChokingPlay
                      /\ Has(last.pre.chokeGroups, VoicesBefore[k].sampleId)
                      /\ last.pre.chokeGroups[VoicesBefore[k].sampleId]
                            = last.pre.chokeGroups[last.msg.id]
          /\ ~ChokingPlay => SubSeq(activeVoices, 1, Len(VoicesBefore)) = VoicesBefore
    /\ Rendered =>
          /\ \A k \in 1..Len(activeVoices) : activeVoices[k].isPlaying
          /\ Len(activeVoices) =
                Cardinality({k \in 1..Len(last.voices) :
                                ~(~last.voices[k].isPlaying
                                  \/ last.voices[k].bufferIndex + last.n
                                        >= Len(HeldNow(last.voices[k])[1]))})

\* SET_BPM, TOGGLE_METRONOME or TOGGLE_TONE was applied over a voice in the
\* middle of its sample, after a LOAD_SAMPLE and a SET_CHOKE_GROUP were.
C26_Witness ==
    /\ Applied("SET_BPM") \/ Applied("TOGGLE_METRONOME") \/ Applied("TOGGLE_TONE")
    /\ Len(activeVoices) = 2
    /\ activeVoices[1].isPlaying /\ activeVoices[1].bufferIndex = 4
    /\ Has(chokeGroups, activeVoices[1].sampleId)
    /\ StartedWith(activeVoices[1]) # HeldNow(activeVoices[1])
    /\ activeVoices[2].bufferIndex = 0

\* A PLAY_SAMPLE has stopped a voice of another pad of its group, over a voice
\* that was stopped before.
C26_Choked ==
    /\ ChokingPlay /\ Len(VoicesBefore) = 2
    /\ \E k \in 1..2 : StoppedByCommand(k) /\ VoicesBefore[k].sampleId # last.msg.id
    /\ \E k \in 1..2 : ~VoicesBefore[k].isPlaying

\* The playing voices whose pad maps to the group g in the choke table as it is.
PlayingInGroup(g) ==
    {k \in 1..Len(activeVoices) :
        /\ activeVoices[k].isPlaying
        /\ Has(chokeGroups, activeVoices[k].sampleId)
        /\ chokeGroups[activeVoices[k].sampleId] = g}

\* C27: right after a PLAY_SAMPLE of a loaded pad that maps to group g has been
\* applied, the voice it created, the last of the set, is the only playing
\* voice whose pad maps to g in the choke table as it is then.
C27_OnePlayingVoicePerGroup ==
    ChokingPlay =>
        /\ Len(activeVoices) = Len(VoicesBefore) + 1
        /\ activeVoices[Len(activeVoices)].sampleId = last.msg.id
        /\ PlayingInGroup(chokeGroups[last.msg.id]) = {Len(activeVoices)}

\* A PLAY_SAMPLE of pad1 (group 1) was applied over two playing voices of pad2,
\* which maps to group 1 too, and a third voice is the only one playing.
C27_Witness ==
    /\ ChokingPlay /\ last.msg.id = Pad1 /\ Len(VoicesBefore) = 2
    /\ \A k \in 1..2 : VoicesBefore[k].isPlaying /\ VoicesBefore[k].sampleId = Pad2
    /\ Has(chokeGroups, Pad2) /\ chokeGroups[Pad1] = 1 /\ chokeGroups[Pad2] = 1
    /\ PlayingInGroup(1) = {3}

\* What never changes in a voice.
Identity(voice) ==
    [sampleId |-> voice.sampleId, gain |-> voice.gain, visSlot |-> voice.visSlot]

\* C28: a PLAY_SAMPLE applied for a loaded pad appends exactly one voice, with
\* cursor 0, playing and the velocity of the command as its gain, whatever the
\* voices already there and whatever the velocity; no command and no block
\* changes the sample id, the gain or the visualization slot of a voice or
\* moves its cursor back.
C28_OneVoicePerTrigger ==
    /\ (Applied("PLAY_SAMPLE") /\ Has(last.pre.sampleBuffers, last.msg.id)) =>
          /\ Len(activeVoices) = Len(VoicesBefore) + 1
          /\ activeVoices[Len(activeVoices)].sampleId = last.msg.id
          /\ activeVoices[Len(activeVoices)].bufferIndex = 0
          /\ activeVoices[Len(activeVoices)].isPlaying
          /\ activeVoices[Len(activeVoices)].gain = last.msg.velocity
    /\ last.op = "message" =>
          \A k \in 1..Len(VoicesBefore) :
              /\ Identity(activeVoices[k]) = Identity(VoicesBefore[k])
              /\ activeVoices[k].bufferIndex >= VoicesBefore[k].bufferIndex
    /\ Rendered =>
          /\ Len(activeVoices) = Len(Survivors(HeldNow))
          /\ \A k \in 1..Len(activeVoices) :
                /\ Identity(activeVoices[k]) = Identity(Survivors(HeldNow)[k])
                /\ activeVoices[k].bufferIndex >= Survivors(HeldNow)[k].bufferIndex

\* Three voices of pad1 triggered with velocity 1.5 (three halves) play at
\* once: two at cursor 4 and the one just pushed.
C28_Witness ==
    /\ Applied("PLAY_SAMPLE") /\ last.msg.velocity = 3 /\ Len(activeVoices) = 3
    /\ \A k \in 1..3 : /\ activeVoices[k].isPlaying
                       /\ activeVoices[k].gain = 3
                       /\ activeVoices[k].sampleId = Pad1
    /\ activeVoices[1].bufferIndex = 4 /\ activeVoices[3].bufferIndex = 0

\* A block has moved a voice of gain 1.5 from cursor 0 to cursor 4.
C28_Moved ==
    /\ Rendered /\ Len(activeVoices) = 1 /\ Len(last.voices) = 2
    /\ activeVoices[1].gain = 3 /\ activeVoices[1].bufferIndex = 4

\* The command the step applies, if it applies one.
Delivered == IF port # << >> /\ port' = Tail(port) THEN {Head(port)} ELSE {}

\* The step gives the pad the group of a SET_CHOKE_GROUP for that pad.
SetsGroupOf(pad) ==
    \E cmd \in {m \in Delivered : m.type = "SET_CHOKE_GROUP"} :
        cmd.id = pad /\ chokeGroups'[pad] = cmd.group

\* The step applies a PLAY_SAMPLE of a loaded pad of group 0 and stops every
\* playing voice whose pad is in group 0.
ZeroChokes ==
    \A cmd \in {m \in Delivered : m.type = "PLAY_SAMPLE"} :
        (/\ Has(sampleBuffers, cmd.id)
         /\ Has(chokeGroups, cmd.id) /\ chokeGroups[cmd.id] = 0) =>
            \A k \in 1..Len(activeVoices) :
                (/\ Has(chokeGroups, activeVoices[k].sampleId)
                 /\ chokeGroups[activeVoices[k].sampleId] = 0) =>
                    ~activeVoices'[k].isPlaying

\* C29: no step takes a pad out of the choke table; the group of a pad changes,
\* and a pad enters the table, only in the step that applies a SET_CHOKE_GROUP
\* for that pad, which gives it the group of the command; group 0 chokes as
\* any other group does.
C29_ChokeTableIsSetOnly ==
    [][/\ \A pad \in DOMAIN chokeGroups :
             /\ Has(chokeGroups', pad)
             /\ chokeGroups'[pad] # chokeGroups[pad] => SetsGroupOf(pad)
       /\ \A pad \in DOMAIN chokeGroups' \ DOMAIN chokeGroups : SetsGroupOf(pad)
       /\ \A cmd \in {m \in Delivered : m.type = "SET_CHOKE_GROUP"} :
             Has(chokeGroups', cmd.id) /\ chokeGroups'[cmd.id] = cmd.group
       /\ ZeroChokes]_vars

\* pad2 was moved from group 0 to group 1 while pad1 stays in group 0, and a
\* block was rendered since.
C29_Witness ==
    /\ Rendered /\ Has(chokeGroups, Pad1) /\ Has(chokeGroups, Pad2)
    /\ chokeGroups[Pad1] = 0 /\ chokeGroups[Pad2] = 1
    /\ Len(activeVoices) = 1 /\ Len(last.voices) = 3
    /\ \E k \in 1..3 : ~last.voices[k].isPlaying /\ last.voices[k].sampleId = Pad2

\* A PLAY_SAMPLE of pad1, in group 0, has stopped a voice of pad2, in group 0.
C29_ZeroChoked ==
    /\ ChokingPlay /\ last.msg.id = Pad1 /\ last.pre.chokeGroups[Pad1] = 0
    /\ \E k \in 1..Len(VoicesBefore) :
          StoppedByCommand(k) /\ VoicesBefore[k].sampleId = Pad2

-----------------------------------------------------------------------------
(* The channels of a sample on the buses *)

\* The voice renders frame i of the block: it was playing and has not reached
\* the end of its sample before that frame.
Renders(voice, i) ==
    voice.isPlaying /\ (i = 0 \/ voice.bufferIndex + i < Len(HeldNow(voice)[1]))

\* What frame i of a bus receives from the voices when a voice gives it the
\* channel C(voice) of its sample at its cursor, times its gain.
RECURSIVE Received(_, _, _)
Received(voices, C(_), i) ==
    IF voices = << >> THEN [v |-> 0, nan |-> FALSE]
    ELSE LET x == Head(voices)
             rest == Received(Tail(voices), C, i)
         IN  IF Renders(x, i)
             THEN AddSampleExactly(rest, OutSample(C(x), x.bufferIndex + i, x.gain))
             ELSE rest

\* Channel 0 of the sample of a voice.
Channel0(voice) == HeldNow(voice)[1]

\* The last channel of the sample of a voice.
ChannelLast(voice) == HeldNow(voice)[Len(HeldNow(voice))]

\* Channel 1 of the sample of a voice that has two channels or more, and its
\* only channel otherwise: channel min(1, channels - 1).
Channel1(voice) == IF Len(HeldNow(voice)) >= 2 THEN HeldNow(voice)[2] ELSE ChannelLast(voice)

\* C30: at every frame a voice renders, master channel 0 receives channel 0 of
\* its sample at its cursor times its gain, master channel 1 receives channel
\* min(1, channels - 1), so a mono sample goes to both alike and a stereo
\* sample channel for channel, and the visualization bus of the voice receives
\* channel 0 times the gain at that frame.
C30_ChannelMapping ==
    Rendered =>
        \A i \in 1..last.n :
            /\ VoicePart(outputs.mix[1])[i] = Received(last.voices, Channel0, i - 1)
            /\ VoicePart(outputs.mix[2])[i] = Received(last.voices, Channel1, i - 1)
            /\ \A k \in 1..NumVis :
                  VoicePart(outputs.vis[k])[i] =
                      Received(SelectSeq(last.voices, LAMBDA x : x.visSlot = k - 1),
                               Channel0, i - 1)

\* A mono voice of pad1 (gain 0.5) and a stereo voice of pad2 (gain 1.0) in one
\* block: 1 + 4 on the left, 1 + 10 on the right, 1 and 4 on their own buses.
C30_Witness ==
    /\ Rendered /\ Len(last.voices) = 2
    /\ outputs.mix[1][1].v = 5 /\ outputs.mix[2][1].v = 11
    /\ outputs.vis[1][1].v = 1 /\ outputs.vis[2][1].v = 4
    /\ outputs.mix[1][2].v = 1 + 6 /\ outputs.mix[2][2].v = 1 + 14

-----------------------------------------------------------------------------
(* The click of a beat on the master bus *)

\* The BEAT events the block posted.
BeatsPosted == SelectSeq(posted, LAMBDA e : e.type = "BEAT")

\* Sample j of the click of the beat with the index b of the bar.
ClickSample(b, j) ==
    <<3000 - (15 * j), IF b = 0 THEN 25 ELSE 15, IF b = 0 THEN 50 ELSE 30>>

\* The click of the last beat of the block is on the master frames from frame
\* k on, and its first sample is on no frame before k.
ClickFrom(k) ==
    LET b == BeatsPosted[Len(BeatsPosted)].payload
    IN  /\ \A j \in 0..(last.n - 1 - k) : \A ch \in 1..2 :
              outputs.mix[ch][k + j + 1].click = ClickSample(b, j)
        /\ \A i \in 0..(k - 1) : \A ch \in 1..2 :
              outputs.mix[ch][i + 1].click # ClickSample(b, 0)

\* C31: when the metronome is enabled and a beat boundary is crossed at frame k
\* of a block, the click of that beat is written to the master frames k, k+1,
\* ... and no sample of it to a frame before k.
C31_ClickStartsAtTheBeat ==
    (Rendered /\ isMetronomeEnabled /\ BeatsPosted # << >>) =>
        ClickFrom(BeatsPosted[Len(BeatsPosted)].frame)

\* C31 for the beats crossed at frame 0 of a block.
C31_AtFrame0 ==
    (/\ Rendered /\ isMetronomeEnabled /\ BeatsPosted # << >>
     /\ BeatsPosted[Len(BeatsPosted)].frame = 0) => ClickFrom(0)

\* What the code does: the click of the last beat crossed in a block is written
\* from frame 0 of that block, wherever in the block the beat was crossed.
C31_ClickStartsAtTheBlock ==
    (Rendered /\ isMetronomeEnabled /\ BeatsPosted # << >>) => ClickFrom(0)

\* A block with the metronome enabled in which a beat was crossed after frame 0.
C31_BeatInsideABlock ==
    /\ Rendered /\ isMetronomeEnabled /\ BeatsPosted # << >>
    /\ BeatsPosted[Len(BeatsPosted)].frame > 0

-----------------------------------------------------------------------------
(* The start-up: the click handler of the start overlay, which waits for     *)
(* persistence.init(), audioManager.init(), loadAllSavedSamples() and        *)
(* midiManager.init() in turn, and the presses that come meanwhile           *)

\* new AudioWorkletNode(context, 'main-processor'): a processor is constructed
\* and audioManager.workletNode is its node, with a port of its own.
WorkletCreated ==
    /\ isTonePlaying' = FALSE
    /\ phase' = <<0, 1>>
    /\ sampleBuffers' = << >>
    /\ activeVoices' = << >>
    /\ chokeGroups' = << >>
    /\ isMetronomeEnabled' = FALSE
    /\ bpm' = 120
    /\ metronomePhase' = 0
    /\ currentBeat' = 0
    /\ clickFreq' = 10
    /\ clickAmp' = 30
    /\ nextClickCountdown' = <<0, 1>>
    /\ samplesPerBeat' = UpdateTiming(sampleRate, 120)
    /\ ticksUntilNextClock' = <<0, 1>>

\* if (isInitialized) return;
MayStart == ~isInitialized

\* A click on the start overlay: past the guard the handler runs up to its first
\* await, persistence.init().
ClickStart ==
    /\ control.runs < MaxClicks
    /\ control' = IF MayStart
                  THEN [control EXCEPT !.startUps = Append(@, "persistence"),
                                       !.runs = @ + 1,
                                       !.overlapped = @ \/ control.startUps # << >>]
                  ELSE control
    /\ last' = [op |-> "click", ran |-> MayStart]
    /\ outputs' = NoOutputs
    /\ posted' = << >>
    /\ UNCHANGED <<sampleRate, port, engine, lim, sent, applied, clk, outlet, beatPulse,
                   isInitialized, samplesStore, transactions, padsLoaded, startups>>

Without(seq, k) == SubSeq(seq, 1, k - 1) \o SubSeq(seq, k + 1, Len(seq))

\* What call k of the handler waits for has failed: it goes to its catch.
\* loadAllSavedSamples and the MIDI step catch their own errors.
Rejected(k) ==
    /\ k \in DOMAIN control.startUps
    /\ control.startUps[k] \in {"persistence", "audio"}
    /\ control' = [control EXCEPT !.startUps = Without(@, k), !.failed = TRUE]
    /\ last' = [op |-> "rejected", pc |-> control.startUps[k]]
    /\ outputs' = NoOutputs
    /\ posted' = << >>
    /\ UNCHANGED <<sampleRate, port, engine, lim, sent, applied, clk, outlet, beatPulse,
                   isInitialized, samplesStore, transactions, padsLoaded, startups>>

\* What call k of the handler waits for is done, and the call runs to its next
\* await or to its end.
Resumed(k) ==
    /\ k \in DOMAIN control.startUps
    /\ LET pc == control.startUps[k]
       IN  /\ last' = [op |-> "resumed", pc |-> pc]
           /\ CASE pc = "persistence" ->
                    \* audioManager.init(): new AudioContext(), then it awaits
                    \* audioWorklet.addModule
                    /\ control' = [control EXCEPT !.startUps[k] = "audio",
                                                  !.contexts = @ + 1]
                    /\ UNCHANGED <<port, engine, sent, applied, isInitialized, padsLoaded>>
                [] pc = "audio" ->
                    \* the node is created; setBpm(currentBpm), the pads are
                    \* generated, loadAllSavedSamples() awaits getAllSamples
                    /\ control' = [control EXCEPT !.startUps[k] = "samples",
                                                  !.engines = @ + 1]
                    /\ WorkletCreated
                    /\ port' = <<SetBpm(120)>>
                    /\ sent' = <<SetBpm(120)>>
                    /\ applied' = << >>
                    /\ padsLoaded' = {}
                    /\ UNCHANGED isInitialized
                [] pc = "samples" ->
                    \* the stored samples are decoded and posted, then
                    \* midiManager.init() awaits requestMIDIAccess
                    /\ \E r \in {LoadAllSavedSamples(GetAllSamples,
                                     CursorOrder(DOMAIN GetAllSamples), 1,
                                     [cmds |-> << >>, loaded |-> {}])} :
                          /\ port' = port \o r.cmds
                          /\ sent' = sent \o r.cmds
                          /\ padsLoaded' = padsLoaded \cup r.loaded
                    /\ control' = [control EXCEPT !.startUps[k] = "midi"]
                    /\ UNCHANGED <<engine, applied, isInitialized>>
                [] OTHER ->
                    \* the callbacks are set, isInitialized = true, the overlay
                    \* is hidden and the controls are set up
                    /\ isInitialized' = TRUE
                    /\ control' = [control EXCEPT !.startUps = Without(@, k)]
                    /\ UNCHANGED <<port, engine, sent, applied, padsLoaded>>
    /\ outputs' = NoOutputs
    /\ posted' = << >>
    /\ UNCHANGED <<sampleRate, lim, clk, outlet, beatPulse, samplesStore,
                   transactions, startups>>

\* A key mapped to the pad goes down, or the pad is pressed or touched:
\* triggerVoice(padId), with the velocity 1.0 it defaults to (two halves).
Press(padId) ==
    /\ Len(port) < lim.queue /\ Len(sent) < lim.sent
    /\ \E cmds \in {PageTriggerVoice(padId, 2)} :
          /\ port' = port \o cmds
          /\ sent' = sent \o cmds
          /\ last' = [op |-> "press", pad |-> padId, ready |-> isInitialized,
                      cmds |-> cmds, port |-> port, control |-> control]
    /\ control' = IF isInitialized THEN [control EXCEPT !.active = @ \cup {padId}]
                  ELSE control
    /\ outputs' = NoOutputs
    /\ posted' = << >>
    /\ UNCHANGED <<sampleRate, engine, lim, applied, clk, outlet, beatPulse,
                   isInitialized, samplesStore, transactions, padsLoaded, startups>>

\* The page as it is loaded: nothing started, no worklet yet (the fields of the
\* processor are those the first one will be constructed with).
InitBoot ==
    /\ sampleRate = 48
    /\ lim = Limits(MaxBootCmds, MaxBootCmds, 0, FALSE)
    /\ Worklet
    /\ isInitialized = FALSE
    /\ samplesStore = << >>
    /\ transactions = << >>
    /\ padsLoaded = {}
    /\ startups = NoStartups
    /\ control = NoControl

NextBoot ==
    \/ ClickStart
    \/ \E k \in 1..MaxClicks : Resumed(k)
    \/ \E k \in 1..MaxClicks : Rejected(k)
    \/ \E padId \in {Pad1, Pad16} : Press(padId)
    \/ \E data \in {<<144, 48, 64>>, <<144, 63, 127>>} : MidiMessage(data)
    \/ OnMessage

SpecBoot == InitBoot /\ [][NextBoot]_vars

\* C32: the start-up sequence runs at most once, however often and whenever the
\* start overlay is clicked, and at most one AudioContext and one worklet node
\* are ever created.
C32_StartUpRunsOnce ==
    control.runs <= 1 /\ control.contexts <= 1 /\ control.engines <= 1

\* C32 for the clicks that come one after the other: when no click came while a
\* call of the handler was waiting and no call failed.
C32_OneAfterTheOther ==
    (~control.overlapped /\ ~control.failed) => C32_StartUpRunsOnce

\* A second worklet node was created by a click that came while the first call
\* was waiting.
C32_TwoEngines ==
    control.engines = 2 /\ control.overlapped /\ ~control.failed

\* C33: while isInitialized is false no PLAY_SAMPLE has been posted, and a pad
\* press, a key press or a MIDI note posts nothing and changes nothing, on the
\* control side and in the worklet.
C33_NoTriggerBeforeReady ==
    /\ ~isInitialized => \A k \in 1..Len(sent) : sent[k].type # "PLAY_SAMPLE"
    /\ (last.op = "press" /\ ~last.ready) =>
          /\ last.cmds = << >>
          /\ port = last.port
          /\ control = last.control
    /\ last.op = "midi" => isInitialized

\* A pad was pressed while the start-up was waiting with the worklet created
\* and its first command applied.
C33_Witness ==
    /\ last.op = "press" /\ ~last.ready
    /\ control.engines = 1 /\ control.startUps = <<"midi">>
    /\ applied = <<SetBpm(120)>>

\* Once the start-up has run to its end a press posts PLAY_SAMPLE.
C33_Ready ==
    /\ last.op = "press" /\ last.ready /\ last.cmds = <<PlaySample(Pad16, 2)>>
    /\ Pad16 \in control.active

-----------------------------------------------------------------------------
(* Loading a kit: loadKitFiles sorts the files by name and loads them on     *)
(* pad1, pad2, ... one after the other                                       *)

\* The file names of the kits, in the order localeCompare puts them.
NameOrder == <<"bad.wav", "hat.wav", "kick.wav", "notes.txt">>

KitPool ==
    {File("bad.wav", "text"), File("hat.wav", "stereo"), File("kick.wav", "ones")}

IndexOfName(name) == CHOOSE k \in DOMAIN NameOrder : NameOrder[k] = name

\* files.sort((a, b) => a.name.localeCompare(b.name))
RECURSIVE SortByName(_)
SortByName(files) ==
    IF files = {} THEN << >>
    ELSE LET first == CHOOSE f \in files :
                         \A g \in files : IndexOfName(f.name) <= IndexOfName(g.name)
         IN  <<first>> \o SortByName(files \ {first})

\* The pads of loadKitFiles: pad`${i + 1}` gets files[i], for the first 16.
KitEntries(files) ==
    LET sorted == SortByName(files)
    IN  [i \in 1..Min(Len(sorted), 16) |-> [id |-> PadName(i), file |-> sorted[i]]]

\* The catch, were it around the loop of the kit.
CaughtOutsideTheLoop(kit) == << >>

\* The catch of loadSampleToPad: the loop of loadKitFiles goes on with the
\* files after the one that failed.
Caught(kit) == Tail(kit)

\* Files are chosen (or dropped) as a kit: loadKitFiles(files) up to its first
\* loadSampleToPad.
LoadKitFiles(files) ==
    /\ isInitialized
    /\ control.kit = << >>
    /\ control' = [control EXCEPT !.kit = KitEntries(files)]
    /\ last' = [op |-> "loadKitFiles", files |-> files]
    /\ outputs' = NoOutputs
    /\ posted' = << >>
    /\ UNCHANGED <<sampleRate, port, engine, lim, sent, applied, clk, outlet, beatPulse,
                   isInitialized, samplesStore, transactions, padsLoaded, startups>>

\* loadSampleToPad on the entry of the kit in hand, up to the transaction it
\* awaits, or through its catch to the next entry.
KitNext ==
    /\ control.kit # << >> /\ control.waiting = 0
    /\ Len(port) < lim.queue /\ Len(sent) < lim.sent
    /\ Len(transactions) < MaxTransactions
    /\ LET entry == Head(control.kit)
       IN  \E loaded \in {LoadUserSample(entry.id, entry.file)} :
              /\ port' = port \o loaded.cmds
              /\ sent' = sent \o loaded.cmds
              /\ transactions' = SaveSample(entry.id, entry.file, loaded)
              /\ control' = IF loaded.ok
                            THEN [control EXCEPT !.waiting = Len(transactions) + 1]
                            ELSE [control EXCEPT !.kit = Caught(@)]
              /\ last' = [op |-> "kitNext", id |-> entry.id, file |-> entry.file,
                          ok |-> loaded.ok, port |-> port,
                          transactions |-> transactions, kit |-> control.kit]
    /\ outputs' = NoOutputs
    /\ posted' = << >>
    /\ UNCHANGED <<sampleRate, engine, lim, applied, clk, outlet, beatPulse,
                   isInitialized, samplesStore, padsLoaded, startups>>

InitKit ==
    /\ sampleRate = 48
    /\ lim = Limits(1, MaxKitCmds, 0, FALSE)
    /\ Constructed

NextKit ==
    \/ \E files \in SUBSET KitPool \ {{}} : LoadKitFiles(files)
    \/ KitNext
    \/ \E ok \in BOOLEAN : TransactionDone(ok)
    \/ OnMessage

SpecKit == InitKit /\ [][NextKit]_vars

\* C34: a file is put in the store only when it was decoded and LOAD_SAMPLE was
\* posted for its pad, and a pad is marked loaded only when its file is in the
\* store; when decoding fails nothing is posted, nothing is put in the store,
\* the pad is not marked, and loadKitFiles goes on with the next file.
C34_SavedAfterLoaded ==
    /\ \A k \in 1..Len(transactions) :
          transactions[k].op = "put" =>
              /\ DecodeAudioData(transactions[k].value.bytes).ok
              /\ \E j \in 1..Len(sent) :
                    sent[j] = LoadSample(transactions[k].key,
                                  DecodeAudioData(transactions[k].value.bytes).channels)
    /\ \A pad \in DOMAIN samplesStore : DecodeAudioData(samplesStore[pad].bytes).ok
    /\ padsLoaded \subseteq DOMAIN samplesStore
    /\ (last.op = "kitNext" /\ ~DecodeAudioData(last.file.bytes).ok) =>
          /\ ~last.ok
          /\ port = last.port
          /\ transactions = last.transactions
          /\ control.waiting = 0
          /\ control.kit = Tail(last.kit)
          /\ (control.kit # << >> /\ Len(sent) < lim.sent) => ENABLED KitNext

\* Of the kit bad.wav, hat.wav, kick.wav the first could not be decoded and the
\* other two were loaded on pad2 and pad3, stored and marked.
C34_Witness ==
    /\ padsLoaded = {Pad2, PadName(3)} /\ DOMAIN samplesStore = {Pad2, PadName(3)}
    /\ sent = <<LoadSample(Pad2, BufStereo), LoadSample(PadName(3), BufOnes)>>
    /\ control.kit = << >>

\* The file of pad1 could not be decoded and the file of pad2 is in hand.
C34_Failed ==
    /\ last.op = "kitNext" /\ ~last.ok /\ last.id = Pad1
    /\ Len(control.kit) = 2 /\ padsLoaded = {} /\ sent = << >>

-----------------------------------------------------------------------------
(* The marks of the pads and the samples of the engine                       *)

\* Files are loaded on pads, the store is cleared and pads are pressed, in one
\* page.
NextClr ==
    \/ \E padId \in {Pad1, Pad2} :
          LoadSampleToPad(padId, File("kick.wav", "ones"))
    \/ Clr
    \/ \E ok \in BOOLEAN : TransactionDone(ok)
    \/ \E padId \in {Pad1, Pad2} : Press(padId)
    \/ OnMessage
    \/ Process(8)

SpecClr == InitStore /\ [][NextClr]_vars

\* No loadSampleToPad is on its way: no LOAD_SAMPLE is in the port and no put
\* is awaited.
NoLoadInProgress ==
    /\ \A k \in 1..Len(port) : port[k].type # "LOAD_SAMPLE"
    /\ \A k \in 1..Len(transactions) : transactions[k].op # "put"
    /\ control.kit = << >>

\* The clear of CLR was the last thing done to the store and the marks.
AfterClr ==
    /\ startups.journal # << >>
    /\ startups.journal[Len(startups.journal)].op = "cleared"
    /\ transactions = << >>
    /\ NoLoadInProgress

\* C35: when no load is in progress a pad is marked loaded exactly when the
\* engine holds a sample for it; after CLR no pad is marked and a pad that is
\* pressed is one the engine has no sample to start a voice from.
C35_PadsAgree ==
    /\ NoLoadInProgress =>
          \A pad \in {Pad1, Pad2} : pad \in padsLoaded <=> Has(sampleBuffers, pad)
    /\ AfterClr =>
          /\ padsLoaded = {}
          /\ (last.op = "press" /\ last.cmds # << >>) => ~Has(sampleBuffers, last.pad)

\* What the page does keep: when no load is in progress a marked pad is one the
\* engine holds a sample for, and after CLR no pad is marked.
C35_MarkedPadsAreHeld ==
    /\ NoLoadInProgress => \A pad \in padsLoaded : Has(sampleBuffers, pad)
    /\ AfterClr => padsLoaded = {}

\* After CLR pad1 is not marked, and PLAY_SAMPLE for it has started a voice
\* from the sample the engine still holds.
C35_VoiceAfterClr ==
    /\ AfterClr
    /\ Pad1 \notin padsLoaded
    /\ last.op = "message" /\ last.msg = PlaySample(Pad1, 2)
    /\ last.pre.activeVoices = << >>
    /\ activeVoices # << >>
    /\ sent = <<LoadSample(Pad1, BufOnes), PlaySample(Pad1, 2)>>

\* The put of saveSample failed: pad1 is not marked and the engine holds its
\* sample.
C35_HeldAndNotMarked ==
    /\ NoLoadInProgress
    /\ startups.journal = << >>
    /\ Pad1 \notin padsLoaded /\ Has(sampleBuffers, Pad1)

-----------------------------------------------------------------------------
(* The tempo of the page: plus, minus, tap tempo and MIDI timing clocks      *)

\* 60000 / 0 in JavaScript; any number above the tempos and the limits.
Infinity == 2147483647

RECURSIVE SumOf(_)
SumOf(seq) == IF seq = << >> THEN 0 ELSE Head(seq) + SumOf(Tail(seq))

\* Math.round(n / d) for n >= 0 and d > 0: the nearest integer, halves up.
MathRound(n, d) == ((2 * n) + d) \div (2 * d)

\* updateBpm(delta, absolute): the new currentBpm; absolute is << >> when it is
\* undefined.
UpdateBpm(current, delta, absolute) ==
    LET newBpm == IF absolute # << >> THEN absolute[1] ELSE current + delta
    IN  IF newBpm < 40 THEN 40 ELSE IF newBpm > 240 THEN 240 ELSE newBpm

\* The tap handler on tapTimes at the time now: the taps kept.
TapTimes(tapTimes, now) ==
    LET kept == IF tapTimes # << >> /\ now - tapTimes[Len(tapTimes)] > 2000
                THEN << >> ELSE tapTimes
        pushed == Append(kept, now)
    IN  IF Len(pushed) > 4 THEN Tail(pushed) ELSE pushed

\* The tap handler: the tempo of the taps kept, << >> when there is one tap.
TapBpm(tapTimes) ==
    IF Len(tapTimes) > 1
    THEN LET intervalsSum == tapTimes[Len(tapTimes)] - tapTimes[1]
         IN  IF intervalsSum = 0 THEN <<Infinity>>
             ELSE <<MathRound(60000 * (Len(tapTimes) - 1), intervalsSum)>>
    ELSE << >>

\* calculateBpm, were it to run on a window that is not full.
CalculateBpmOnAnyWindow(tickIntervals) ==
    IF tickIntervals = << >> \/ SumOf(tickIntervals) = 0 THEN << >>
    ELSE LET tenths == MathRound(600000 * Len(tickIntervals), 24 * SumOf(tickIntervals))
         IN  IF tenths >= 300 /\ tenths <= 3000 THEN <<MathRound(tenths, 10)>> ELSE << >>

\* calculateBpm(): the argument of the bpm callback, << >> when it is not
\* called.  smoothedBpm is kept in tenths.
CalculateBpm(tickIntervals) ==
    IF Len(tickIntervals) < 24 THEN << >>
    ELSE IF SumOf(tickIntervals) = 0 THEN << >>       \* Infinity is above 300
    ELSE LET tenths == MathRound(600000 * Len(tickIntervals), 24 * SumOf(tickIntervals))
         IN  IF tenths >= 300 /\ tenths <= 3000 THEN <<MathRound(tenths, 10)>> ELSE << >>

\* handleClockTick() when delta ms have passed since the last timing clock: the
\* fields of the MidiManager and the argument of the bpm callback.
HandleClockTick(c, delta) ==
    LET pushed == IF c.ticked THEN Append(c.tickIntervals, delta) ELSE c.tickIntervals
        window == IF Len(pushed) > 24 THEN Tail(pushed) ELSE pushed
    IN  [tickIntervals |-> window, tickCount |-> c.tickCount + 1,
         bpm |-> IF (c.tickCount + 1) % 24 = 0 THEN CalculateBpm(window) ELSE << >>]

\* The bpm callback of the page: the new currentBpm.
BpmCallback(current, detected) == IF detected # current THEN detected ELSE current

\* A click on plus (delta 1) or minus (delta -1).
BpmStep(delta) ==
    /\ isInitialized
    /\ Len(port) < lim.queue /\ Len(sent) < lim.sent
    /\ \E newBpm \in {UpdateBpm(control.currentBpm, delta, << >>)} :
          /\ control' = [control EXCEPT !.currentBpm = newBpm]
          /\ port' = Append(port, SetBpm(newBpm))
          /\ sent' = Append(sent, SetBpm(newBpm))
    /\ last' = [op |-> "bpmStep", delta |-> delta, from |-> control.currentBpm]
    /\ outputs' = NoOutputs
    /\ posted' = << >>
    /\ UNCHANGED <<sampleRate, engine, lim, applied, clk, outlet, beatPulse,
                   isInitialized, samplesStore, transactions, padsLoaded, startups>>

\* A click on TAP, gap ms after the tap before it.
Tap(gap) ==
    /\ isInitialized
    /\ Len(port) < lim.queue /\ Len(sent) < lim.sent
    /\ LET now == IF control.tapTimes = << >> THEN 1000 + gap
                  ELSE control.tapTimes[Len(control.tapTimes)] + gap
           taps == TapTimes(control.tapTimes, now)
           tapped == TapBpm(taps)
           newBpm == IF tapped = << >> THEN control.currentBpm
                     ELSE UpdateBpm(control.currentBpm, 0, tapped)
           cmds == IF tapped = << >> THEN << >> ELSE <<SetBpm(newBpm)>>
       IN  /\ now <= 1000 + (MaxTaps * 2500)
           /\ control' = [control EXCEPT !.tapTimes = taps, !.currentBpm = newBpm]
           /\ port' = port \o cmds
           /\ sent' = sent \o cmds
           /\ last' = [op |-> "tap", gap |-> gap, bpm |-> tapped, taps |-> control.tapTimes]
    /\ outputs' = NoOutputs
    /\ posted' = << >>
    /\ UNCHANGED <<sampleRate, engine, lim, applied, clk, outlet, beatPulse,
                   isInitialized, samplesStore, transactions, padsLoaded, startups>>

\* A timing clock (0xF8) of a MIDI input, delta ms after the one before it.
ClockTick(delta) ==
    /\ isInitialized
    /\ control.tickCount < MaxTicks
    /\ Len(port) < lim.queue
    /\ (control.ticked /\ control.period # delta) => control.changes < MaxChanges
    /\ LET tick == HandleClockTick(control, delta)
           newBpm == IF tick.bpm = << >> THEN control.currentBpm
                     ELSE BpmCallback(control.currentBpm, tick.bpm[1])
           cmds == IF newBpm # control.currentBpm THEN <<SetBpm(newBpm)>> ELSE << >>
       IN  /\ Len(sent) + Len(cmds) <= lim.sent
           /\ control' = [control EXCEPT !.tickIntervals = tick.tickIntervals,
                                         !.tickCount = tick.tickCount,
                                         !.ticked = TRUE,
                                         !.currentBpm = newBpm,
                                         !.period = delta,
                                         !.changes = IF control.ticked /\ control.period # delta
                                                     THEN control.changes + 1 ELSE @]
           /\ port' = port \o cmds
           /\ sent' = sent \o cmds
           /\ last' = [op |-> "clockTick", delta |-> delta, bpm |-> tick.bpm,
                       from |-> control.currentBpm]
    /\ outputs' = NoOutputs
    /\ posted' = << >>
    /\ UNCHANGED <<sampleRate, engine, lim, applied, clk, outlet, beatPulse,
                   isInitialized, samplesStore, transactions, padsLoaded, startups>>

\* The times between two taps, ms.
TapGaps == {0, 1900, 2500}

\* The times between two timing clocks, ms: 312.5, 250 and 29.8 beats a minute.
Periods == {8, 10, 84}

InitBpm ==
    /\ sampleRate = 48
    /\ lim = Limits(1, MaxBpmCmds, 0, FALSE)
    /\ Constructed

NextBpm ==
    \/ \E delta \in {-1, 1} : BpmStep(delta)
    \/ \E gap \in TapGaps : Tap(gap)
    \/ \E delta \in Periods : ClockTick(delta)
    \/ OnMessage

SpecBpm == InitBpm /\ [][NextBpm]_vars

\* C36: the tempo of the page and every bpm sent in SET_BPM are within
\* 40..240, whatever plus, minus, taps and timing clocks came, and the samples
\* per beat of the engine are positive.
C36_TempoWithinLimits ==
    /\ control.currentBpm >= 40 /\ control.currentBpm <= 240
    /\ \A k \in 1..Len(sent) :
          sent[k].type = "SET_BPM" => sent[k].payload >= 40 /\ sent[k].payload <= 240
    /\ samplesPerBeat[1] > 0 /\ samplesPerBeat[2] > 0

\* What the page does keep: plus, minus and taps leave the tempo within
\* 40..240, timing clocks within 30..300, and the samples per beat are positive.
C36_TempoOfTheControls ==
    /\ (last.op = "bpmStep" \/ (last.op = "tap" /\ last.bpm # << >>)) =>
          control.currentBpm >= 40 /\ control.currentBpm <= 240
    /\ control.currentBpm >= 30 /\ control.currentBpm <= 300
    /\ \A k \in 1..Len(sent) :
          sent[k].type = "SET_BPM" => sent[k].payload >= 30 /\ sent[k].payload <= 300
    /\ samplesPerBeat[1] > 0 /\ samplesPerBeat[2] > 0

\* Timing clocks 10 ms apart made the tempo 250, and the engine took it.
C36_MidiTempoAboveLimit ==
    /\ control.currentBpm = 250
    /\ sent = <<SetBpm(250)>>
    /\ last.op = "message" /\ last.msg = SetBpm(250)
    /\ bpm = 250

\* C37: the window of intervals holds at most 24; the bpm callback is called
\* only on a timing clock whose count is a multiple of 24, with 24 intervals
\* collected and an integer in 30..300; a tempo that rounds to tenths below 30
\* or above 300 gets no callback.
C37_ClockDetection ==
    /\ Len(control.tickIntervals) <= 24
    /\ last.op = "clockTick" =>
          /\ last.bpm # << >> =>
                /\ control.tickCount % 24 = 0
                /\ Len(control.tickIntervals) = 24
                /\ last.bpm[1] \in 30..300
          /\ (control.tickCount % 24 = 0 /\ Len(control.tickIntervals) = 24) =>
                LET sum == SumOf(control.tickIntervals)
                IN  (sum = 0 \/ 1200000 < 599 * sum \/ 1200000 >= 6001 * sum)
                        => last.bpm = << >>

\* The 48th timing clock, with a full window of a changing tempo, called the
\* callback.
C37_Witness ==
    /\ last.op = "clockTick" /\ last.bpm # << >>
    /\ control.tickCount = 48
    /\ control.changes = 1
    /\ control.currentBpm = last.bpm[1]

\* The 48th timing clock found a tempo below 30 and made no callback.
C37_OutOfRange ==
    /\ last.op = "clockTick" /\ last.bpm = << >>
    /\ control.tickCount = 48 /\ Len(control.tickIntervals) = 24
    /\ 1200000 < 599 * SumOf(control.tickIntervals)

-----------------------------------------------------------------------------
(* Recording from the microphone: startMicRecording and stopMicRecording     *)

\* The guard of startMicRecording: isRecording is not set.
MayRecord(mic) == ~mic.isRecording

\* What the actions of the microphone leave alone.
MicOnly ==
    /\ outputs' = NoOutputs
    /\ posted' = << >>
    /\ UNCHANGED <<sampleRate, port, engine, lim, sent, applied, clk, outlet, beatPulse,
                   isInitialized, samplesStore, transactions, padsLoaded, startups>>

\* startMicRecording() up to its await of getUserMedia, or to its throw of
\* 'Already recording'.
StartMicRecording ==
    /\ isInitialized
    /\ control.mic.starting < MaxStarting
    /\ control' = IF MayRecord(control.mic)
                  THEN [control EXCEPT !.mic.starting = @ + 1]
                  ELSE control
    /\ last' = [op |-> "startMicRecording", threw |-> ~MayRecord(control.mic),
                pre |-> control.mic]
    /\ MicOnly

\* getUserMedia resolves for a call of startMicRecording: the chunks are
\* emptied, a MediaRecorder is created on the stream and started.
StreamGranted ==
    /\ control.mic.starting > 0
    /\ control.mic.created < MaxRecorders
    /\ control' = [control EXCEPT !.mic.starting = @ - 1,
                                  !.mic.recordedChunks = << >>,
                                  !.mic.created = @ + 1,
                                  !.mic.mediaRecorder = control.mic.created + 1,
                                  !.mic.recording = @ \cup {control.mic.created + 1},
                                  !.mic.isRecording = TRUE]
    /\ last' = [op |-> "streamGranted", pre |-> control.mic]
    /\ MicOnly

\* getUserMedia rejects: startMicRecording logs and rethrows.
StreamDenied ==
    /\ control.mic.starting > 0
    /\ control' = [control EXCEPT !.mic.starting = @ - 1]
    /\ last' = [op |-> "streamDenied", pre |-> control.mic]
    /\ MicOnly

\* stopMicRecording() up to mediaRecorder.stop(): null when nothing is
\* recording; stop() throws on a recorder that is not recording, and the
\* promise is rejected.
StopMicRecording ==
    /\ isInitialized
    /\ LET mic == control.mic
           null == ~mic.isRecording \/ mic.mediaRecorder = 0
           stops == ~null /\ mic.mediaRecorder \in mic.recording
       IN  /\ control' = IF stops
                         THEN [control EXCEPT !.mic.recording = @ \ {mic.mediaRecorder},
                                              !.mic.stopping = "data"]
                         ELSE control
           /\ last' = [op |-> "stopMicRecording", null |-> null, stopped |-> stops,
                       pre |-> mic]
    /\ MicOnly

\* The dataavailable event of the recorder that was stopped, with or without
\* data.
OnDataAvailable(size) ==
    /\ control.mic.stopping = "data"
    /\ control' = [control EXCEPT
                      !.mic.recordedChunks =
                          IF size > 0 THEN Append(@, control.mic.mediaRecorder) ELSE @,
                      !.mic.stopping = "stop"]
    /\ last' = [op |-> "dataavailable", size |-> size, pre |-> control.mic]
    /\ MicOnly

\* onstop up to its awaits: the tracks are stopped and the blob is made.
OnStop ==
    /\ control.mic.stopping = "stop"
    /\ control' = [control EXCEPT !.mic.stopping = "decode"]
    /\ last' = [op |-> "onstop", pre |-> control.mic]
    /\ MicOnly

\* onstop after decodeAudioData: the recorder is released, or the promise is
\* rejected.
OnDecoded(ok) ==
    /\ control.mic.stopping = "decode"
    /\ control' = IF ok
                  THEN [control EXCEPT !.mic.isRecording = FALSE,
                                       !.mic.mediaRecorder = 0,
                                       !.mic.recordedChunks = << >>,
                                       !.mic.stopping = ""]
                  ELSE [control EXCEPT !.mic.isRecording = FALSE,
                                       !.mic.stopping = ""]
    /\ last' = [op |-> "decoded", ok |-> ok, pre |-> control.mic]
    /\ MicOnly

InitMic ==
    /\ sampleRate = 48
    /\ lim = Limits(1, 0, 0, FALSE)
    /\ Constructed

NextMic ==
    \/ StartMicRecording
    \/ StreamGranted
    \/ StreamDenied
    \/ StopMicRecording
    \/ \E size \in {0, 1} : OnDataAvailable(size)
    \/ OnStop
    \/ \E ok \in BOOLEAN : OnDecoded(ok)

SpecMic == InitMic /\ [][NextMic]_vars

\* C38: at most one recorder is recording; startMicRecording called while a
\* recording is in progress or is being started throws 'Already recording' and
\* leaves the recorder and its chunks as they are; stopMicRecording with no
\* recording returns null and changes nothing; after a stop that completed the
\* recorder is released and a recording can be started.
C38_OneRecording ==
    /\ Cardinality(control.mic.recording) <= 1
    /\ (last.op = "startMicRecording"
           /\ (last.pre.isRecording \/ last.pre.starting > 0)) =>
              (last.threw /\ control.mic = last.pre)
    /\ (last.op = "stopMicRecording"
           /\ (~last.pre.isRecording \/ last.pre.mediaRecorder = 0)) =>
              (last.null /\ control.mic = last.pre)
    /\ (last.op = "decoded" /\ last.ok) =>
          /\ control.mic.mediaRecorder = 0
          /\ control.mic.recordedChunks = << >>
          /\ MayRecord(control.mic)

\* What the AudioManager does keep: startMicRecording throws and changes
\* nothing while isRecording is set, stopMicRecording with no recording returns
\* null and changes nothing, and a stop that completed releases the recorder.
C38_WhileRecording ==
    /\ (last.op = "startMicRecording" /\ last.pre.isRecording) =>
          (last.threw /\ control.mic = last.pre)
    /\ (last.op = "stopMicRecording"
           /\ (~last.pre.isRecording \/ last.pre.mediaRecorder = 0)) =>
              (last.null /\ control.mic = last.pre)
    /\ (last.op = "decoded" /\ last.ok) =>
          /\ control.mic.mediaRecorder = 0
          /\ control.mic.recordedChunks = << >>
          /\ MayRecord(control.mic)

\* Two calls of startMicRecording were awaiting getUserMedia together: two
\* recorders are recording and the first is no longer held.
C38_TwoRecorders ==
    /\ control.mic.recording = {1, 2}
    /\ control.mic.mediaRecorder = 2
    /\ control.mic.isRecording

=============================================================================
